---------------------------- MODULE Spec2Model ----------------------------
(***************************************************************************)
(* Model of the Basecamp MCP server's dock resolution, cross-project       *)
(* assignment aggregation and bulk assignment (src/unnamed/part_001,       *)
(* src/src/index.ts, src/index.ts) and of the POST handler of its four     *)
(* builds (those three and src/unnamed/part_000).                          *)
(*                                                                         *)
(* Character strings are sequences of one-character strings, so that       *)
(* toLowerCase, trim, includes and parseInt are computed, not assumed.     *)
(* Instants are counted in slots, SlotsPerDay to the day, in UTC (the      *)
(* Workers runtime's time zone); a date string "YYYY-MM-DD" is its day     *)
(* number and new Date(date) is that day's first slot.                     *)
(***************************************************************************)
EXTENDS Integers, Sequences, FiniteSets, TLC

VARIABLES
    identifier,   \* findBestUserMatch: the identifier argument
    users,        \* findBestUserMatch: the users argument
    match,        \* findBestUserMatch: the returned {user, suggestions}, or Pending
    mpc,          \* "call" before findBestUserMatch has run, "done" after
    due_date_filter, \* the due-date filter of get_my_assignments: args.due_date_filter
    due_on,       \* the filter's todo: its due_on date, or NoDue
    now,          \* the filter's clock: new Date()
    kept,         \* whether the filter callback returned true for the todo
    dpc,          \* "call" before the filter callback has run, "done" after
    toolName,     \* auto-lookup: the tool called
    resourceArg,  \* auto-lookup: the resource id argument (todoset_id, ...), or NoId
    sent,         \* auto-lookup: the requests sent to the remote service, in order
    projectResponse, \* auto-lookup: the response to the project request, or Pending
    toolResult,   \* auto-lookup: what callBasecampTool returned or threw, or Pending
    kpc,          \* auto-lookup: "start", "resource" (id known) or "done"
    tool,         \* aggregation: the assignment tool called
    args,         \* aggregation: its arguments (an absent field is undefined)
    apc,          \* aggregation: the fetch the call is awaiting, or "done"
    projectIndex, \* aggregation: index of the project of the for-loop
    todolistIndex, \* aggregation: index of the todo-list of the inner for-loop
    docks,        \* aggregation: projectDetail.dock of each project fetched
    targetUser,   \* aggregation: currentUser / targetUser / targetAssignee
    allTodos,     \* aggregation: allTodos
    allCards,     \* aggregation: allCards
    allScheduleEntries, \* aggregation: allScheduleEntries
    allItems,     \* aggregation: matchingAssignments / staleAssignments / timelineItems
    aborted,      \* aggregation: controller.signal.aborted
    abortedAt,    \* history: the fetch that was pending when the timer fired
    fetched,      \* history: the requests made, each with whether it was served
    owed,         \* history: todo-lists never requested that would have been served
    result,       \* aggregation: the payload returned, or Pending
    workloadMap,  \* aggregation: workloadMap.values() of getAssignmentWorkload
    subject,      \* calculateAssignmentSeverity: the assignment argument
    label,        \* calculateAssignmentSeverity: the label returned, or Pending
    labelAgain,   \* calculateAssignmentSeverity: the label of a second call
    vpc,          \* "call" before calculateAssignmentSeverity has run, "done" after
    scoreText,    \* calculateRelevanceScore: the content argument
    scoreQuery,   \* calculateRelevanceScore: the query argument
    otherQuery,   \* calculateRelevanceScore: the query of a second call
    score,        \* calculateRelevanceScore: the score returned, or Pending
    otherScore,   \* calculateRelevanceScore: the score of the second call
    cpc,          \* "call" before calculateRelevanceScore has run, "done" after
    counters,     \* getAssignmentWorkload: one value of workloadMap
    analysis,     \* getAssignmentWorkload: its entry of workloadAnalysis, or Pending
    wpc,          \* "call" before the map callback has run, "done" after
    bulkArgs,     \* bulkAssignTodos: args (an absent field is undefined)
    bpc,          \* bulkAssignTodos: "lookup" or "update" awaited, or "done"
    todoIndex,    \* bulkAssignTodos: index of todoId in args.todo_ids
    lookedUp,     \* bulkAssignTodos: todo, or Null
    results,      \* bulkAssignTodos: results
    errors,       \* bulkAssignTodos: errors
    wire,         \* bulkAssignTodos: the requests the call has sent, in order
    store,        \* the remote service: the assignee ids of each todo
    bulkResult,   \* bulkAssignTodos: the payload returned, or Pending
    rpcBuild,     \* POST handler: the build that runs
    rpcRequest,   \* POST handler: mcpRequest (an absent member is undefined)
    rpcHeaders,   \* POST handler: request.headers
    rpcEnv,       \* POST handler: env
    rpcpc,        \* POST handler: "posted", "calling" (tool's fetch awaited), "done"
    rpcSent,      \* POST handler: the requests sent to the remote service
    rpcOutcome,   \* history: how the tool's fetch settled
    rpcResponse   \* POST handler: the Response returned, or Pending

matchVars == <<identifier, users, match, mpc>>

dueVars == <<due_date_filter, due_on, now, kept, dpc>>

dockVars == <<toolName, resourceArg, sent, projectResponse, toolResult, kpc>>

aggVars == <<tool, args, apc, projectIndex, todolistIndex, docks, targetUser,
             allTodos, allCards, allScheduleEntries, allItems, aborted,
             abortedAt, fetched, owed, result, workloadMap>>

sevVars == <<subject, label, labelAgain, vpc>>

scoreVars == <<scoreText, scoreQuery, otherQuery, score, otherScore, cpc>>

tierVars == <<counters, analysis, wpc>>

pureVars == <<sevVars, scoreVars, tierVars>>

bulkVars == <<bulkArgs, bpc, todoIndex, lookedUp, results, errors, wire, store,
              bulkResult>>

rpcVars == <<rpcBuild, rpcRequest, rpcHeaders, rpcEnv, rpcpc, rpcSent, rpcOutcome,
             rpcResponse>>

callVars == <<bulkVars, rpcVars>>

vars == <<matchVars, dueVars, dockVars, aggVars, pureVars, callVars>>

\* null, as a record so that it compares with the records it stands in for.
Null == [null |-> TRUE]
\* A result not yet returned.
Pending == [pending |-> TRUE]

(***************************************************************************)
(* Strings                                                                 *)
(***************************************************************************)

\* String.prototype.toLowerCase, one character.
LowerChar(c) ==
    CASE c = "A" -> "a" [] c = "D" -> "d" [] c = "E" -> "e" [] c = "H" -> "h"
      [] c = "J" -> "j" [] c = "K" -> "k" [] c = "L" -> "l" [] c = "N" -> "n"
      [] c = "O" -> "o" [] c = "X" -> "x"
      [] OTHER -> c

\* String.prototype.toLowerCase.
ToLowerCase(s) == [i \in 1..Len(s) |-> LowerChar(s[i])]

IsSpace(c) == c = " "

RECURSIVE TrimStart(_)
\* String.prototype.trimStart: leading white space removed.
TrimStart(s) ==
    IF s # <<>> /\ IsSpace(Head(s)) THEN TrimStart(Tail(s)) ELSE s

RECURSIVE TrimEnd(_)
\* String.prototype.trimEnd: trailing white space removed.
TrimEnd(s) ==
    IF s # <<>> /\ IsSpace(s[Len(s)]) THEN TrimEnd(SubSeq(s, 1, Len(s) - 1)) ELSE s

\* String.prototype.trim.
Trim(s) == TrimEnd(TrimStart(s))

\* String.prototype.includes: t occurs in s as a contiguous substring.
Includes(s, t) ==
    \E i \in 0..(Len(s) - Len(t)) : SubSeq(s, i + 1, i + Len(t)) = t

\* String.prototype.startsWith.
StartsWith(s, t) == Len(t) <= Len(s) /\ SubSeq(s, 1, Len(t)) = t

Digits == {"0", "1", "2", "3", "4", "5", "6", "7", "8", "9"}

DigitValue(c) ==
    CASE c = "0" -> 0 [] c = "1" -> 1 [] c = "2" -> 2 [] c = "3" -> 3
      [] c = "4" -> 4 [] c = "5" -> 5 [] c = "6" -> 6 [] c = "7" -> 7
      [] c = "8" -> 8 [] c = "9" -> 9

\* /^\d+$/.test(s)
AllDigits(s) == s # <<>> /\ \A i \in 1..Len(s) : s[i] \in Digits

RECURSIVE ParseInt(_)
\* parseInt(s) of a string of decimal digits.
ParseInt(s) ==
    IF s = <<>> THEN 0
    ELSE 10 * ParseInt(SubSeq(s, 1, Len(s) - 1)) + DigitValue(s[Len(s)])

(***************************************************************************)
(* Array helpers                                                           *)
(***************************************************************************)

Min(S) == CHOOSE x \in S : \A y \in S : x <= y

\* Array.prototype.find, given the indices whose element passes the test: the
\* first such element, or Null.
Find(seq, hits) == IF hits = {} THEN Null ELSE seq[Min(hits)]

RECURSIVE Pick(_, _)
\* Array.prototype.filter, given the indices whose element passes the test:
\* those elements, in the order of seq.
Pick(seq, S) ==
    IF seq = <<>> THEN <<>>
    ELSE (IF Len(seq) \in S THEN Pick(SubSeq(seq, 1, Len(seq) - 1), S) \o <<seq[Len(seq)]>>
          ELSE Pick(SubSeq(seq, 1, Len(seq) - 1), S))

\* Array.prototype.slice(0, n).
SliceTo(seq, n) == SubSeq(seq, 1, IF Len(seq) < n THEN Len(seq) ELSE n)

(***************************************************************************)
(* People                                                                  *)
(***************************************************************************)

NoEmail == <<"\\0">>

Person(id, name, email) == [id |-> id, name |-> name, email_address |-> email]

\* The people a people.json response may hold.  Names carry no surrounding
\* white space.  Person 4's name and person 6's e-mail are a digit string, and
\* person 5's name is person 3's e-mail, so that the three exact matches compete.
PeoplePool ==
    << Person(1, <<"J","o","h","n"," ","D","o","e">>, <<"j","d","@","x">>),
       Person(2, <<"J","o","h","n","n","y"," ","L","e","e">>, <<"j","l","@","x">>),
       Person(3, <<"A","n","n">>, <<"a","n","n","@","x">>),
       Person(4, <<"3">>, NoEmail),
       Person(5, <<"a","n","n","@","X">>, <<"e","@","x">>),
       Person(6, <<"J","o","n">>, <<"3">>),
       Person(7, <<"J","o","h">>, <<"j","o","h","n","7","@","x">>),
       Person(8, <<"J","O","H","N"," ","K">>, NoEmail),
       Person(9, <<"A","l">>, <<"x","J","o","h","n","@","x">>),
       Person(10, <<"j","o","h","n"," ","q">>, <<"q","@","x">>) >>

\* The identifiers a caller may pass.
Identifiers ==
    { <<"j","o","h","n">>, <<"J","O","H","N">>, <<" ","j","o","h","n">>,
      <<"j","o","h","n"," ">>, <<"j","o">>,
      <<"3">>, <<"0","3">>, <<" ","3">>, <<"1","0">>,
      <<"a","n","n">>, <<"A","N","N"," ">>, <<"a","n","n","@","x">>,
      <<"A","n","n","@","X">>, <<"z","z">>, <<>>, <<" ">> }

Reverse(seq) == [i \in 1..Len(seq) |-> seq[Len(seq) + 1 - i]]

\* Longest people list drawn.
MaxUsers == 7

\* The people lists drawn: any MaxUsers or fewer of the pool, in the pool's
\* order or the reverse.
UserLists ==
    LET subs == {S \in SUBSET (1..Len(PeoplePool)) : Cardinality(S) <= MaxUsers}
    IN  {Pick(PeoplePool, S) : S \in subs} \cup {Reverse(Pick(PeoplePool, S)) : S \in subs}

(***************************************************************************)
(* findBestUserMatch                                                       *)
(***************************************************************************)

SuggestionLimit == 5

\* u.email_address?.toLowerCase() === normalizedIdentifier
EmailIs(u, normalizedIdentifier) ==
    u.email_address # NoEmail /\ ToLowerCase(u.email_address) = normalizedIdentifier

\* u.name?.toLowerCase() === normalizedIdentifier
NameIs(u, normalizedIdentifier) == ToLowerCase(u.name) = normalizedIdentifier

\* name.includes(normalizedIdentifier) || email.includes(normalizedIdentifier)
PartialMatch(u, normalizedIdentifier) ==
    \/ Includes(ToLowerCase(u.name), normalizedIdentifier)
    \/ Includes(IF u.email_address = NoEmail THEN <<>> ELSE ToLowerCase(u.email_address),
                normalizedIdentifier)

UserResult(user, suggestions) == [user |-> user, suggestions |-> suggestions]

\* A plausible slip: the name match tried before the e-mail match.
findBestUserMatch_nameFirst(ident, us) ==
    IF ident = <<>> \/ Len(us) = 0 THEN UserResult(Null, <<>>)
    ELSE LET normalizedIdentifier == Trim(ToLowerCase(ident))
             all == 1..Len(us)
             idHits == {i \in all : us[i].id = ParseInt(ident)}
             emailHits == {i \in all : EmailIs(us[i], normalizedIdentifier)}
             nameHits == {i \in all : NameIs(us[i], normalizedIdentifier)}
             partialHits == {i \in all : PartialMatch(us[i], normalizedIdentifier)}
         IN  IF AllDigits(ident) /\ idHits # {} THEN UserResult(Find(us, idHits), <<>>)
             ELSE IF nameHits # {} THEN UserResult(Find(us, nameHits), <<>>)
             ELSE IF emailHits # {} THEN UserResult(Find(us, emailHits), <<>>)
             ELSE UserResult(Null, SliceTo(Pick(us, partialHits), SuggestionLimit))

\* A plausible slip: the suggestions matched on the name alone.
findBestUserMatch_nameOnly(ident, us) ==
    IF ident = <<>> \/ Len(us) = 0 THEN UserResult(Null, <<>>)
    ELSE LET normalizedIdentifier == Trim(ToLowerCase(ident))
             all == 1..Len(us)
             idHits == {i \in all : us[i].id = ParseInt(ident)}
             emailHits == {i \in all : EmailIs(us[i], normalizedIdentifier)}
             nameHits == {i \in all : NameIs(us[i], normalizedIdentifier)}
             partialHits == {i \in all : Includes(ToLowerCase(us[i].name), normalizedIdentifier)}
         IN  IF AllDigits(ident) /\ idHits # {} THEN UserResult(Find(us, idHits), <<>>)
             ELSE IF emailHits # {} THEN UserResult(Find(us, emailHits), <<>>)
             ELSE IF nameHits # {} THEN UserResult(Find(us, nameHits), <<>>)
             ELSE UserResult(Null, SliceTo(Pick(us, partialHits), SuggestionLimit))

findBestUserMatch(ident, us) ==
    IF ident = <<>> \/ Len(us) = 0 THEN UserResult(Null, <<>>)
    ELSE LET normalizedIdentifier == Trim(ToLowerCase(ident))
             all == 1..Len(us)
             idHits == {i \in all : us[i].id = ParseInt(ident)}
             emailHits == {i \in all : EmailIs(us[i], normalizedIdentifier)}
             nameHits == {i \in all : NameIs(us[i], normalizedIdentifier)}
             partialHits == {i \in all : PartialMatch(us[i], normalizedIdentifier)}
         IN  IF AllDigits(ident) /\ idHits # {} THEN UserResult(Find(us, idHits), <<>>)
             ELSE IF emailHits # {} THEN UserResult(Find(us, emailHits), <<>>)
             ELSE IF nameHits # {} THEN UserResult(Find(us, nameHits), <<>>)
             ELSE UserResult(Null, SliceTo(Pick(us, partialHits), SuggestionLimit))

MatchInit ==
    /\ identifier \in Identifiers
    /\ users \in UserLists
    /\ match = Pending
    /\ mpc = "call"

MatchIdle ==
    /\ identifier = <<>>
    /\ users = <<>>
    /\ match = Pending
    /\ mpc = "idle"

\* One call of findBestUserMatch(identifier, users).
CallFindBestUserMatch ==
    /\ mpc = "call"
    /\ match' = findBestUserMatch(identifier, users)
    /\ mpc' = "done"
    /\ UNCHANGED <<identifier, users>>
    /\ UNCHANGED <<dueVars, dockVars, aggVars, pureVars, callVars>>

(***************************************************************************)
(* Claims about findBestUserMatch                                          *)
(***************************************************************************)

\* The three exact matches as the specification words them: on the identifier
\* as passed, compared without regard to case.
IdMatches(u) == AllDigits(identifier) /\ u.id = ParseInt(identifier)
EmailMatches(u) ==
    u.email_address # NoEmail /\ ToLowerCase(u.email_address) = ToLowerCase(identifier)
NameMatches(u) == ToLowerCase(u.name) = ToLowerCase(identifier)

SomeUser(Test(_)) == \E i \in 1..Len(users) : Test(users[i])

\* u's name or e-mail contains t, case-insensitively.
ContainsCI(u, t) ==
    \/ Includes(ToLowerCase(u.name), ToLowerCase(t))
    \/ u.email_address # NoEmail /\ Includes(ToLowerCase(u.email_address), ToLowerCase(t))

\* The suggestions are at most SuggestionLimit people who contain t, and whoever
\* contains t and is left out comes after SuggestionLimit suggestions.
SuggestionsFor(t) ==
    LET sug == match.suggestions
        Pos(u) == CHOOSE i \in 1..Len(users) : users[i] = u
    IN  /\ Len(sug) <= SuggestionLimit
        /\ \A i \in 1..Len(sug) :
               /\ \E j \in 1..Len(users) : users[j] = sug[i]
               /\ ContainsCI(sug[i], t)
        /\ \A j \in 1..Len(users) :
               (ContainsCI(users[j], t) /\ ~\E i \in 1..Len(sug) : sug[i] = users[j])
                   => /\ Len(sug) = SuggestionLimit
                      /\ \A i \in 1..Len(sug) : Pos(sug[i]) < j

\* The specification's example: "john" against John Doe, Johnny Lee and Ann.
JohnExample ==
    (identifier = <<"j","o","h","n">> /\ users = SubSeq(PeoplePool, 1, 3))
        => match = UserResult(Null, SubSeq(PeoplePool, 1, 2))

\* C7: findBestUserMatch resolves by strict precedence: a person whose id
\* equals the all-digit identifier wins over any e-mail match, an exact
\* case-insensitive e-mail match wins over any name match, an exact
\* case-insensitive name match is used only when neither of the former exists,
\* and whenever one of the three exists a user is returned.
C7_Precedence ==
    mpc = "done" =>
        /\ SomeUser(IdMatches) => (match.user # Null /\ IdMatches(match.user))
        /\ (~SomeUser(IdMatches) /\ SomeUser(EmailMatches))
               => (match.user # Null /\ EmailMatches(match.user))
        /\ (~SomeUser(IdMatches) /\ ~SomeUser(EmailMatches) /\ SomeUser(NameMatches))
               => (match.user # Null /\ NameMatches(match.user))

\* C7 witness: the call has returned where an id match, an e-mail match and a
\* name match by three different people compete, the e-mail and name matches
\* standing before the id match in the list.
C7_Witness ==
    /\ mpc = "done"
    /\ identifier = <<"3">>
    /\ \E i, j, k \in 1..Len(users) :
           /\ i < k /\ j < k
           /\ EmailMatches(users[i]) /\ NameMatches(users[j]) /\ IdMatches(users[k])
    /\ match.user # Null
    /\ match.user.id = 3

\* C8 as stated: when no exact id, e-mail or name match exists, no user is
\* returned, together with at most 5 suggestions, each containing the
\* identifier as a case-insensitive substring of its name or e-mail, everyone
\* left out either not containing it or cut by the limit of 5.
C8_Original ==
    (/\ mpc = "done"
     /\ ~SomeUser(IdMatches) /\ ~SomeUser(EmailMatches) /\ ~SomeUser(NameMatches))
        => /\ match.user = Null
           /\ SuggestionsFor(identifier)
           /\ JohnExample

\* No exact match for the identifier with its surrounding white space trimmed.
NoExactMatchTrimmed ==
    LET t == Trim(ToLowerCase(identifier))
    IN  /\ ~SomeUser(IdMatches)
        /\ \A i \in 1..Len(users) :
               /\ ~(users[i].email_address # NoEmail
                      /\ ToLowerCase(users[i].email_address) = t)
               /\ ToLowerCase(users[i].name) # t

\* C8 amended: the matching is on the identifier with surrounding white space
\* trimmed.  When the identifier is not empty and no exact id, e-mail or name
\* match exists for the trimmed identifier, no user is returned, together with
\* at most 5 suggestions, each containing the trimmed identifier as a
\* case-insensitive substring of its name or e-mail, everyone left out either
\* not containing it or cut by the limit of 5; an empty identifier yields no
\* user and no suggestion.
C8_Suggestions ==
    mpc = "done" =>
        /\ (identifier # <<>> /\ NoExactMatchTrimmed)
               => /\ match.user = Null
                  /\ SuggestionsFor(Trim(identifier))
        /\ identifier = <<>> => match = UserResult(Null, <<>>)
        /\ JohnExample

\* C8 witness: the call has returned with the limit of 5 cutting a sixth person
\* who contains the trimmed identifier, the identifier carrying white space.
C8_Witness ==
    /\ mpc = "done"
    /\ identifier = <<" ","j","o","h","n">>
    /\ NoExactMatchTrimmed
    /\ match.user = Null
    /\ Len(match.suggestions) = SuggestionLimit
    /\ \E j \in 1..Len(users) :
           /\ ContainsCI(users[j], Trim(identifier))
           /\ \A i \in 1..Len(match.suggestions) : match.suggestions[i] # users[j]

(***************************************************************************)
(* Dates and the due-date filter of getMyAssignments                       *)
(***************************************************************************)

\* Instants per day that the clock can show; slot 0 is midnight UTC.
SlotsPerDay == 3

\* A todo without due_on (null).  Dates are day numbers since 1970-01-01 and
\* are positive.
NoDue == 0

\* new Date("YYYY-MM-DD"): midnight UTC of that date.
NewDate(date) == date * SlotsPerDay

\* The UTC calendar date of an instant, which toDateString() prints and
\* getFullYear(), getMonth(), getDate() return.
DateOf(t) == t \div SlotsPerDay

\* Date.prototype.getDay: 0 for Sunday; 1970-01-01 was a Thursday.
GetDay(t) == (DateOf(t) + 4) % 7

\* 7 * 24 * 60 * 60 * 1000 milliseconds.
WeekMs == 7 * SlotsPerDay

\* new Date(now.getFullYear(), now.getMonth(), now.getDate() - now.getDay() + plus)
WeekStart(t, plus) == NewDate(DateOf(t) - GetDay(t) + plus)

DueDateFilters == {"overdue", "today", "this_week", "next_week", "tomorrow"}

\* The callback of allTodos.filter under a due_date_filter: whether the todo
\* stays.
TodoDueFilter(filter, due, t) ==
    IF due = NoDue THEN FALSE
    ELSE LET dueDate == NewDate(due)
         IN  CASE filter = "overdue" -> dueDate < t
               [] filter = "today" -> DateOf(dueDate) = DateOf(t)
               [] filter = "this_week" ->
                      dueDate >= WeekStart(t, 0) /\ dueDate < WeekStart(t, 0) + WeekMs
               [] filter = "next_week" ->
                      dueDate >= WeekStart(t, 7) /\ dueDate < WeekStart(t, 7) + WeekMs
               [] OTHER -> TRUE

\* The dates of the clock: one full week, so that every weekday occurs.
NowDates == 20..26

\* The due dates drawn: from two weeks before the clock's week to two after.
DueDates == 6..40

DueInit ==
    /\ due_date_filter \in DueDateFilters
    /\ due_on \in DueDates \cup {NoDue}
    /\ now \in {NewDate(d) + s : d \in NowDates, s \in 0..(SlotsPerDay - 1)}
    /\ kept = FALSE
    /\ dpc = "call"

DueIdle ==
    /\ due_date_filter = "none"
    /\ due_on = NoDue
    /\ now = 0
    /\ kept = FALSE
    /\ dpc = "idle"

\* The filter callback applied to one todo.
ApplyTodoDueFilter ==
    /\ dpc = "call"
    /\ kept' = TodoDueFilter(due_date_filter, due_on, now)
    /\ dpc' = "done"
    /\ UNCHANGED <<due_date_filter, due_on, now>>
    /\ UNCHANGED <<matchVars, dockVars, aggVars, pureVars, callVars>>

\* C10 as stated: at every time of day 'overdue' keeps exactly the todos whose
\* due_on date is strictly before today's date and 'today' exactly those whose
\* due_on date is today's, so that a todo due today is kept by 'today' and
\* never by 'overdue'.
C10_OverdueToday ==
    dpc = "done" =>
        /\ due_date_filter = "overdue"
               => (kept <=> (due_on # NoDue /\ due_on < DateOf(now)))
        /\ due_date_filter = "today"
               => (kept <=> (due_on # NoDue /\ due_on = DateOf(now)))

(***************************************************************************)
(* Auto-lookup of a capability id from the project's dock                  *)
(* (src/src/index.ts, callBasecampTool and getProjectDock)                 *)
(***************************************************************************)

AutoLookupTools ==
    {"get_message_board", "get_todo_lists", "get_documents", "get_messages",
     "create_todo_list", "create_document", "create_message"}

\* The dock entry name each auto-lookup tool searches for.
DockName(name) ==
    CASE name \in {"get_message_board", "get_messages", "create_message"} -> "message_board"
      [] name \in {"get_todo_lists", "create_todo_list"} -> "todoset"
      [] name \in {"get_documents", "create_document"} -> "vault"

\* The message thrown when the dock has no such entry.
NotFoundMessage(name) ==
    CASE DockName(name) = "message_board" ->
             "Message board not found or not enabled in this project"
      [] DockName(name) = "todoset" -> "Todo lists not found or not enabled in this project"
      [] DockName(name) = "vault" -> "Documents not found or not enabled in this project"

\* No resource id among the arguments.
NoId == 0

\* A project's full dock; a project may lack any of the entries.
FullDock ==
    << [name |-> "message_board", id |-> 11], [name |-> "todoset", id |-> 12],
       [name |-> "vault", id |-> 13], [name |-> "chat", id |-> 14] >>

Docks == {Pick(FullDock, S) : S \in SUBSET (1..Len(FullDock))}

\* What a fetch can come to: a 2xx response, a non-2xx response, or a rejection
\* (network error).
OkResponse(body) == [kind |-> "response", ok |-> TRUE, status |-> 200, body |-> body]
ErrorResponse(status) == [kind |-> "response", ok |-> FALSE, status |-> status, body |-> <<>>]
Rejected == [kind |-> "rejected", ok |-> FALSE, status |-> 0, body |-> <<>>]

ErrorStatuses == {404, 500}

ProjectResponses ==
    {OkResponse(d) : d \in Docks} \cup {ErrorResponse(st) : st \in ErrorStatuses} \cup {Rejected}

ResourceResponses ==
    {OkResponse(<<>>)} \cup {ErrorResponse(st) : st \in ErrorStatuses} \cup {Rejected}

Thrown(message, status) == [thrown |-> message, status |-> status]
Returned(id) == [content |-> id]

\* A plausible slip: the response's ok flag not looked at, a failed project
\* fetch read as a project with an empty dock.
getProjectDock_noOkCheck(response) ==
    IF response.kind = "rejected" THEN Thrown("fetch failed", 0)
    ELSE [dock |-> response.body]

\* getProjectDock, after its fetch: the dock, or the error thrown.
getProjectDock(response) ==
    IF response.kind = "rejected" THEN Thrown("fetch failed", 0)
    ELSE IF ~response.ok THEN Thrown("Failed to get project", response.status)
    ELSE [dock |-> response.body]

\* dock.find(item => item.name === name): the indices of the entries of that name.
DockHits(dock, name) == {i \in 1..Len(dock) : dock[i].name = name}

Request(url, id) == [url |-> url, id |-> id]

DockInit ==
    /\ toolName \in AutoLookupTools
    /\ resourceArg \in {NoId, 77}
    /\ sent = <<>>
    /\ projectResponse = Pending
    /\ toolResult = Pending
    /\ kpc = "start"

DockIdle ==
    /\ toolName = "none"
    /\ resourceArg = NoId
    /\ sent = <<>>
    /\ projectResponse = Pending
    /\ toolResult = Pending
    /\ kpc = "idle"

\* The tool's case up to its own fetch, when the resource id is not among the
\* arguments: getProjectDock, then the search of the dock.
LookupDock ==
    /\ kpc = "start"
    /\ resourceArg = NoId
    /\ \E response \in ProjectResponses :
           LET got == getProjectDock(response)
               hits == IF "dock" \in DOMAIN got THEN DockHits(got.dock, DockName(toolName))
                       ELSE {}
           IN  /\ sent' = Append(sent, Request("project", NoId))
               /\ projectResponse' = response
               /\ IF "thrown" \in DOMAIN got
                      THEN /\ toolResult' = got
                           /\ resourceArg' = resourceArg
                           /\ kpc' = "done"
                  ELSE IF hits = {}
                      THEN /\ toolResult' = Thrown(NotFoundMessage(toolName), 0)
                           /\ resourceArg' = resourceArg
                           /\ kpc' = "done"
                  ELSE /\ toolResult' = toolResult
                       /\ resourceArg' = Find(got.dock, hits).id
                       /\ kpc' = "resource"
    /\ UNCHANGED toolName
    /\ UNCHANGED <<matchVars, dueVars, aggVars, pureVars, callVars>>

\* The tool's own fetch of the capability's resource, and the common tail of
\* callBasecampTool.
FetchResource ==
    /\ \/ kpc = "resource"
       \/ kpc = "start" /\ resourceArg # NoId
    /\ \E response \in ResourceResponses :
           /\ sent' = Append(sent, Request(DockName(toolName), resourceArg))
           /\ toolResult' =
                  IF response.kind = "rejected" THEN Thrown("fetch failed", 0)
                  ELSE IF ~response.ok THEN Thrown("Basecamp API error", response.status)
                  ELSE Returned(resourceArg)
    /\ kpc' = "done"
    /\ UNCHANGED <<toolName, resourceArg, projectResponse>>
    /\ UNCHANGED <<matchVars, dueVars, aggVars, pureVars, callVars>>

\* The requests sent so far to the given url.
SentTo(url) == {i \in 1..Len(sent) : sent[i].url = url}

\* C5: auto-lookup fetches the project once; it fails with a project-fetch
\* error when that response is non-2xx and with a distinct
\* capability-not-found error when the dock has no entry of the requested
\* name, and in both cases no request to the capability's own resource is sent.
C5_AutoLookup ==
    /\ Cardinality(SentTo("project")) <= 1
    /\ (projectResponse # Pending) => Cardinality(SentTo("project")) = 1
    /\ (kpc \in {"resource", "done"} /\ projectResponse = Pending)
           => (SentTo("project") = {} /\ resourceArg # NoId)
    /\ (projectResponse # Pending /\ projectResponse.kind = "response"
            /\ ~projectResponse.ok)
           => /\ kpc = "done"
              /\ toolResult = Thrown("Failed to get project", projectResponse.status)
              /\ SentTo(DockName(toolName)) = {}
    /\ (projectResponse # Pending /\ projectResponse.ok
            /\ DockHits(projectResponse.body, DockName(toolName)) = {})
           => /\ kpc = "done"
              /\ toolResult = Thrown(NotFoundMessage(toolName), 0)
              /\ toolResult.thrown # "Failed to get project"
              /\ SentTo(DockName(toolName)) = {}
    /\ (projectResponse # Pending /\ projectResponse.ok /\ kpc = "done"
            /\ DockHits(projectResponse.body, DockName(toolName)) # {})
           => /\ Len(sent) = 2
              /\ sent[2] = Request(DockName(toolName),
                                    Find(projectResponse.body,
                                         DockHits(projectResponse.body, DockName(toolName))).id)

\* C5 witness: a tool called without its resource id has ended on a project
\* whose dock holds other entries but not the requested one, after the one
\* project request and nothing else.
C5_Witness ==
    /\ kpc = "done"
    /\ projectResponse # Pending
    /\ projectResponse.ok
    /\ Len(projectResponse.body) > 0
    /\ DockHits(projectResponse.body, DockName(toolName)) = {}
    /\ toolResult = Thrown(NotFoundMessage(toolName), 0)
    /\ sent = <<Request("project", NoId)>>

(***************************************************************************)
(* Aggregation: the remote account the assignment tools walk               *)
(***************************************************************************)

\* The instant of the call, new Date(): the second slot of a Friday.
CallTime == NewDate(23) + 1

Today == DateOf(CallTime)

\* n * 24 * 60 * 60 * 1000 milliseconds.
Days(n) == n * SlotsPerDay

\* GET /my/profile.json.
CurrentUser == PeoplePool[1]

\* GET /people.json.
AllPeople == SubSeq(PeoplePool, 1, 3)

\* GET /projects.json: the two projects of the account.
Projects == <<[id |-> 1, name |-> "A"], [id |-> 2, name |-> "B"]>>

\* The todo-lists of each project's todo-set.
NumLists == 2

\* The capabilities a project's dock can list.
DockNames == {"todoset", "kanban_board", "schedule"}

Assignee(id) == [id |-> id]

\* GET todolist.todos_url: the three todos of todo-list l of project p.  The
\* first is assigned to person 1 and old, the second to person 2 (odd lists)
\* or to nobody (even lists) and recent, the third is completed.
Todo(p, l, k) ==
    LET odd == l % 2 = 1
    IN  [id |-> 100 * p + 10 * l + k,
         content |-> CASE k = 1 -> <<"J", "o", " ", "x">>
                       [] k = 2 -> <<"a", " ", "j", "o">>
                       [] OTHER -> <<"z">>,
         assignees |-> CASE k = 1 -> <<Assignee(1)>>
                         [] k = 2 -> (IF odd THEN <<Assignee(2)>> ELSE <<>>)
                         [] OTHER -> <<Assignee(1), Assignee(3), Assignee(42)>>,
         completed |-> (k = 3),
         due_on |-> CASE k = 1 -> (IF odd THEN Today - 2 * (p - 1) ELSE NoDue)
                      [] k = 2 -> (IF odd THEN Today + 2 ELSE Today - 1)
                      [] OTHER -> Today - 3,
         created_at |-> IF k = 2 THEN CallTime - Days(2) ELSE CallTime - Days(10),
         updated_at |-> IF k = 2 THEN CallTime - Days(1) ELSE CallTime - Days(9)]

Todos(p, l) == [k \in 1..3 |-> Todo(p, l, k)]

\* GET card_tables/<id>.json: one column with two cards, the first assigned
\* to person 1 and old, the second recent and assigned to person 3 in the
\* first project and to nobody in the others.
Card(p, k) ==
    [id |-> 100 * p + 90 + k,
     title |-> IF k = 1 THEN <<"j", "o", " ", "c">> ELSE <<"k">>,
     assignees |-> CASE k = 1 -> <<Assignee(1)>>
                     [] p = 1 -> <<Assignee(3)>>
                     [] OTHER -> <<>>,
     created_at |-> IF k = 1 THEN CallTime - Days(20) ELSE CallTime - Days(1),
     updated_at |-> IF k = 1 THEN CallTime - Days(20) ELSE CallTime - Days(1)]

Cards(p) == [k \in 1..2 |-> Card(p, k)]

\* GET schedule.url: two entries, one ahead with person 1 taking part and one
\* past with person 2 taking part.
Entry(p, k) ==
    [id |-> 100 * p + 80 + k,
     summary |-> <<"e">>,
     participants |-> <<Assignee(k)>>,
     starts_at |-> IF k = 1 THEN CallTime + Days(4 - p) ELSE CallTime - Days(1)]

Entries(p) == [k \in 1..2 |-> Entry(p, k)]

(***************************************************************************)
(* Aggregation: the helpers of the assignment tools                        *)
(***************************************************************************)

\* A sort that puts items of equal key in the reverse of their order in seq.
Sort_reverseTies(seq, keys) ==
    LET all == 1..Len(seq)
        Rank(i) == Cardinality({j \in all :
                       keys[j] < keys[i] \/ (keys[j] = keys[i] /\ j > i)}) + 1
    IN  [r \in all |-> seq[CHOOSE i \in all : Rank(i) = r]]

\* Array.prototype.sort with a comparator that subtracts the keys: the items
\* in the order of their keys, items of equal key in their order in seq.
Sort(seq, keys) ==
    LET all == 1..Len(seq)
        Rank(i) == Cardinality({j \in all :
                       keys[j] < keys[i] \/ (keys[j] = keys[i] /\ j < i)}) + 1
    IN  [r \in all |-> seq[CHOOSE i \in all : Rank(i) = r]]

\* assignees.some(a => a.id === id), false of a missing list.
HasAssignee(item, id) ==
    "assignees" \in DOMAIN item /\ \E i \in 1..Len(item.assignees) : item.assignees[i].id = id

RECURSIVE Split(_)
\* String.prototype.split(/\s+/).
Split(s) ==
    LET spaces == {i \in 1..Len(s) : IsSpace(s[i])}
    IN  IF spaces = {} THEN <<s>>
        ELSE <<SubSeq(s, 1, Min(spaces) - 1)>>
             \o Split(TrimStart(SubSeq(s, Min(spaces), Len(s))))

Abs(n) == IF n < 0 THEN -n ELSE n

\* calculateAssignmentSeverity with the age rule after the medium rule.
calculateAssignmentSeverity_mediumFirst(assignment, t) ==
    LET hasDue == "due_on" \in DOMAIN assignment /\ assignment.due_on # NoDue
        dueDate == IF hasDue THEN NewDate(assignment.due_on) ELSE 0
        daysSinceCreated == (t - assignment.created_at) \div Days(1)
        isOverdue == hasDue /\ dueDate < t
        daysUntilDue == (dueDate - t) \div Days(1)
        completed == "completed" \in DOMAIN assignment /\ assignment.completed
    IN  IF isOverdue /\ daysUntilDue # 0 /\ Abs(daysUntilDue) > 7 THEN "critical"
        ELSE IF isOverdue \/ (hasDue /\ daysUntilDue <= 1) THEN "high"
        ELSE IF hasDue /\ daysUntilDue <= 7 THEN "medium"
        ELSE IF daysSinceCreated > 14 /\ ~completed THEN "high"
        ELSE "low"

\* calculateAssignmentSeverity without the age rule.
calculateAssignmentSeverity_noAgeRule(assignment, t) ==
    LET hasDue == "due_on" \in DOMAIN assignment /\ assignment.due_on # NoDue
        dueDate == IF hasDue THEN NewDate(assignment.due_on) ELSE 0
        isOverdue == hasDue /\ dueDate < t
        daysUntilDue == (dueDate - t) \div Days(1)
    IN  IF isOverdue /\ daysUntilDue # 0 /\ Abs(daysUntilDue) > 7 THEN "critical"
        ELSE IF isOverdue \/ (hasDue /\ daysUntilDue <= 1) THEN "high"
        ELSE IF hasDue /\ daysUntilDue <= 7 THEN "medium"
        ELSE "low"

calculateAssignmentSeverity(assignment, t) ==
    LET hasDue == "due_on" \in DOMAIN assignment /\ assignment.due_on # NoDue
        dueDate == IF hasDue THEN NewDate(assignment.due_on) ELSE 0
        daysSinceCreated == (t - assignment.created_at) \div Days(1)
        isOverdue == hasDue /\ dueDate < t
        daysUntilDue == (dueDate - t) \div Days(1)
        completed == "completed" \in DOMAIN assignment /\ assignment.completed
    IN  IF isOverdue /\ daysUntilDue # 0 /\ Abs(daysUntilDue) > 7 THEN "critical"
        ELSE IF isOverdue \/ (hasDue /\ daysUntilDue <= 1) THEN "high"
        ELSE IF daysSinceCreated > 14 /\ ~completed THEN "high"
        ELSE IF hasDue /\ daysUntilDue <= 7 THEN "medium"
        ELSE "low"

\* calculateRelevanceScore without the 100 of the phrase match.
calculateRelevanceScore_wordsOnly(content, query) ==
    LET contentLower == ToLowerCase(content)
        queryLower == ToLowerCase(query)
        queryWords == Split(queryLower)
        wordHits == {i \in 1..Len(queryWords) : Includes(contentLower, queryWords[i])}
    IN  10 * Cardinality(wordHits)
        + (IF StartsWith(contentLower, queryLower) THEN 50 ELSE 0)

calculateRelevanceScore(content, query) ==
    LET contentLower == ToLowerCase(content)
        queryLower == ToLowerCase(query)
        queryWords == Split(queryLower)
        wordHits == {i \in 1..Len(queryWords) : Includes(contentLower, queryWords[i])}
    IN  (IF Includes(contentLower, queryLower) THEN 100 ELSE 0)
        + 10 * Cardinality(wordHits)
        + (IF StartsWith(contentLower, queryLower) THEN 50 ELSE 0)

(***************************************************************************)
(* Aggregation: what each tool keeps of a response                         *)
(***************************************************************************)

AssignmentTools ==
    {"get_my_assignments", "get_user_assignments", "find_assignments_by_keyword",
     "get_stale_assignments", "get_assignment_timeline", "get_assignment_workload"}

\* Whether the caller passed the argument.
Has(name) == name \in DOMAIN args

\* project_name and project_id, as every tool adds them to what it keeps.
OfProject(p) == [project_id |-> Projects[p].id, project_name |-> Projects[p].name]

\* getMyAssignments, getUserAssignments: the todos of the list assigned to
\* the user, completed ones only on request.
userTodos(p, l) ==
    LET todos == Todos(p, l)
        includeCompleted == Has("include_completed") /\ args.include_completed
        keep == {i \in 1..Len(todos) :
                    /\ HasAssignee(todos[i], targetUser.id)
                    /\ (includeCompleted \/ ~todos[i].completed)}
        chosen == Pick(todos, keep)
    IN  [i \in 1..Len(chosen) |-> chosen[i] @@ OfProject(p) @@ [todolist_name |-> l]]

\* getMyAssignments, getUserAssignments: the cards of the column assigned to
\* the user.
userCards(p) ==
    LET cards == Cards(p)
        chosen == Pick(cards, {i \in 1..Len(cards) : HasAssignee(cards[i], targetUser.id)})
    IN  [i \in 1..Len(chosen) |-> chosen[i] @@ OfProject(p) @@ [column_name |-> 1]]

\* getMyAssignments: the callback of schedule.entries.filter.
EntryDueFilter(entryDate, t) ==
    IF ~Has("due_date_filter") THEN TRUE
    ELSE CASE args.due_date_filter = "today" -> DateOf(entryDate) = DateOf(t)
           [] args.due_date_filter = "this_week" ->
                  entryDate >= WeekStart(t, 0) /\ entryDate < WeekStart(t, 0) + WeekMs
           [] args.due_date_filter = "next_week" ->
                  entryDate >= WeekStart(t, 7) /\ entryDate < WeekStart(t, 7) + WeekMs
           [] OTHER -> TRUE

\* getMyAssignments: the schedule entries chosen.
entries(p) ==
    LET all == Entries(p)
        chosen == Pick(all, {i \in 1..Len(all) : EntryDueFilter(all[i].starts_at, now)})
    IN  [i \in 1..Len(chosen) |-> chosen[i] @@ OfProject(p)]

\* findAssignmentsByKeyword: statusMatch.
StatusMatch(todo) ==
    \/ ~Has("status")
    \/ args.status = "completed" /\ todo.completed
    \/ args.status = "pending" /\ ~todo.completed
    \/ /\ args.status = "overdue"
       /\ todo.due_on # NoDue
       /\ NewDate(todo.due_on) < now
       /\ ~todo.completed

\* findAssignmentsByKeyword: the todos of the list pushed to
\* matchingAssignments.
matchingTodos(p, l) ==
    LET todos == Todos(p, l)
        searchQuery == ToLowerCase(args.query)
        keep == {i \in 1..Len(todos) :
                    /\ Includes(ToLowerCase(todos[i].content), searchQuery)
                    /\ Len(todos[i].assignees) > 0
                    /\ (targetUser = Null \/ HasAssignee(todos[i], targetUser.id))
                    /\ StatusMatch(todos[i])}
        chosen == Pick(todos, keep)
    IN  [i \in 1..Len(chosen) |->
            [type |-> "todo", id |-> chosen[i].id, title |-> chosen[i].content,
             todolist_name |-> l, assignees |-> chosen[i].assignees,
             completed |-> chosen[i].completed, due_on |-> chosen[i].due_on,
             created_at |-> chosen[i].created_at, updated_at |-> chosen[i].updated_at,
             relevance_score |->
                 calculateRelevanceScore(chosen[i].content \o <<" ">>, searchQuery)]
            @@ OfProject(p)]

\* findAssignmentsByKeyword: the cards pushed to matchingAssignments.
matchingCards(p) ==
    LET cards == Cards(p)
        searchQuery == ToLowerCase(args.query)
        keep == {i \in 1..Len(cards) :
                    /\ Includes(ToLowerCase(cards[i].title), searchQuery)
                    /\ Len(cards[i].assignees) > 0
                    /\ (targetUser = Null \/ HasAssignee(cards[i], targetUser.id))}
        chosen == Pick(cards, keep)
    IN  [i \in 1..Len(chosen) |->
            [type |-> "card", id |-> chosen[i].id, title |-> chosen[i].title,
             column_name |-> 1, assignees |-> chosen[i].assignees,
             created_at |-> chosen[i].created_at, updated_at |-> chosen[i].updated_at,
             relevance_score |->
                 calculateRelevanceScore(chosen[i].title \o <<" ">>, searchQuery)]
            @@ OfProject(p)]

\* args.days_stale || 7
DefaultDaysStale == 7

\* args.days_ahead || 30
DefaultDaysAhead == 30

\* getStaleAssignments: staleThreshold.
StaleThreshold ==
    now - Days(IF Has("days_stale") /\ args.days_stale # 0 THEN args.days_stale
               ELSE DefaultDaysStale)

\* getAssignmentTimeline: endDate.
EndDate ==
    now + Days(IF Has("days_ahead") /\ args.days_ahead # 0 THEN args.days_ahead
               ELSE DefaultDaysAhead)

\* getStaleAssignments: lastActivityDate.
LastActivityDate(item) ==
    IF item.updated_at > item.created_at THEN item.updated_at ELSE item.created_at

\* getStaleAssignments: the severity filter.
SeverityMatch(item) ==
    ~Has("severity_filter") \/ calculateAssignmentSeverity(item, now) = args.severity_filter

\* getStaleAssignments: the todos of the list pushed to staleAssignments.
staleTodos(p, l) ==
    LET todos == Todos(p, l)
        isStale(todo) == LastActivityDate(todo) < StaleThreshold
        isUnassigned(todo) == Len(todo.assignees) = 0
        isOverdue(todo) == todo.due_on # NoDue /\ NewDate(todo.due_on) < now
        keep == {i \in 1..Len(todos) :
                    /\ ~todos[i].completed
                    /\ \/ isStale(todos[i])
                       \/ Has("include_unassigned") /\ args.include_unassigned
                          /\ isUnassigned(todos[i])
                       \/ isOverdue(todos[i])
                    /\ SeverityMatch(todos[i])}
        chosen == Pick(todos, keep)
    IN  [i \in 1..Len(chosen) |->
            [type |-> "todo", id |-> chosen[i].id, title |-> chosen[i].content,
             todolist_name |-> l, assignees |-> chosen[i].assignees,
             created_at |-> chosen[i].created_at, updated_at |-> chosen[i].updated_at,
             due_on |-> chosen[i].due_on,
             days_since_activity |-> (now - LastActivityDate(chosen[i])) \div Days(1),
             is_stale |-> isStale(chosen[i]), is_unassigned |-> isUnassigned(chosen[i]),
             is_overdue |-> isOverdue(chosen[i]),
             severity |-> calculateAssignmentSeverity(chosen[i], now)]
            @@ OfProject(p)]

\* getStaleAssignments: the cards pushed to staleAssignments.  The days since
\* the last activity are the milliseconds divided by 1000 * 60 * 60 * 1000,
\* that is by 1000 hours.
staleCards(p) ==
    LET cards == Cards(p)
        isStale(card) == LastActivityDate(card) < StaleThreshold
        isUnassigned(card) == Len(card.assignees) = 0
        keep == {i \in 1..Len(cards) :
                    /\ \/ isStale(cards[i])
                       \/ Has("include_unassigned") /\ args.include_unassigned
                          /\ isUnassigned(cards[i])
                    /\ SeverityMatch(cards[i])}
        chosen == Pick(cards, keep)
    IN  [i \in 1..Len(chosen) |->
            [type |-> "card", id |-> chosen[i].id, title |-> chosen[i].title,
             column_name |-> 1, assignees |-> chosen[i].assignees,
             created_at |-> chosen[i].created_at, updated_at |-> chosen[i].updated_at,
             days_since_activity |->
                 ((now - LastActivityDate(chosen[i])) * 24) \div (1000 * SlotsPerDay),
             is_stale |-> isStale(chosen[i]), is_unassigned |-> isUnassigned(chosen[i]),
             is_overdue |-> FALSE,
             severity |-> calculateAssignmentSeverity(chosen[i], now)]
            @@ OfProject(p)]

\* getAssignmentTimeline: priority of a timeline item.
Priority(isOverdue, daysUntilDue) ==
    IF isOverdue THEN "critical"
    ELSE IF daysUntilDue <= 1 THEN "high"
    ELSE IF daysUntilDue <= 7 THEN "medium"
    ELSE "low"

\* getAssignmentTimeline: the todos of the list pushed to timelineItems.
timelineTodos(p, l) ==
    LET todos == Todos(p, l)
        keep == {i \in 1..Len(todos) :
                    /\ todos[i].due_on # NoDue
                    /\ ~todos[i].completed
                    /\ NewDate(todos[i].due_on) <= EndDate
                    /\ (targetUser = Null \/ HasAssignee(todos[i], targetUser.id))}
        chosen == Pick(todos, keep)
        dueDate(todo) == NewDate(todo.due_on)
        daysUntilDue(todo) == (dueDate(todo) - now) \div Days(1)
    IN  [i \in 1..Len(chosen) |->
            [type |-> "todo", id |-> chosen[i].id, title |-> chosen[i].content,
             due_date |-> chosen[i].due_on, date_object |-> dueDate(chosen[i]),
             todolist_name |-> l, assignees |-> chosen[i].assignees,
             is_overdue |-> dueDate(chosen[i]) < now,
             days_until_due |-> daysUntilDue(chosen[i]),
             priority |-> Priority(dueDate(chosen[i]) < now, daysUntilDue(chosen[i]))]
            @@ OfProject(p)]

\* getAssignmentTimeline: the schedule entries pushed to timelineItems.
timelineEntries(p) ==
    LET all == Entries(p)
        keep == {i \in 1..Len(all) : all[i].starts_at >= now /\ all[i].starts_at <= EndDate}
        chosen == Pick(all, keep)
        daysUntilEntry(entry) == (entry.starts_at - now) \div Days(1)
    IN  [i \in 1..Len(chosen) |->
            [type |-> "schedule_entry", id |-> chosen[i].id, title |-> chosen[i].summary,
             due_date |-> DateOf(chosen[i].starts_at), date_object |-> chosen[i].starts_at,
             is_overdue |-> FALSE, days_until_due |-> daysUntilEntry(chosen[i]),
             priority |-> Priority(FALSE, daysUntilEntry(chosen[i])),
             starts_at |-> chosen[i].starts_at]
            @@ OfProject(p)]

(***************************************************************************)
(* Aggregation: the payloads returned                                      *)
(***************************************************************************)

\* The key of a todo without due_on in the final sort of the todos.
Infinity == 1000000

\* 'all_assignees' / 'all_users' in place of the person filtered by.
AllUsers == [all |-> TRUE]

\* The todos a tool pushes for todo-list l of project p.
KeptTodos(p, l) ==
    CASE tool \in {"get_my_assignments", "get_user_assignments"} -> userTodos(p, l)
      [] tool = "find_assignments_by_keyword" -> matchingTodos(p, l)
      [] tool = "get_stale_assignments" -> staleTodos(p, l)
      [] tool = "get_assignment_timeline" -> timelineTodos(p, l)

\* The cards a tool pushes for the card table of project p.
KeptCards(p) ==
    CASE tool \in {"get_my_assignments", "get_user_assignments"} -> userCards(p)
      [] tool = "find_assignments_by_keyword" -> matchingCards(p)
      [] tool = "get_stale_assignments" -> staleCards(p)

\* The schedule entries a tool pushes for the schedule of project p.
KeptEntries(p) ==
    CASE tool = "get_my_assignments" -> entries(p)
      [] tool = "get_assignment_timeline" -> timelineEntries(p)

\* Whether the tool keeps todos and cards in allTodos and allCards; the
\* other tools push everything to one list.
SplitLists == tool \in {"get_my_assignments", "get_user_assignments"}

\* allTodos.sort(...) of getMyAssignments and getUserAssignments.
SortByDue(todos) ==
    Sort(todos, [i \in 1..Len(todos) |->
                    IF todos[i].due_on # NoDue THEN NewDate(todos[i].due_on) ELSE Infinity])

\* getMyAssignments: the trailing due-date filter of allTodos.
FilterByDue(todos) ==
    IF Has("due_date_filter") /\ args.due_date_filter # "none"
    THEN Pick(todos, {i \in 1..Len(todos) :
                         TodoDueFilter(args.due_date_filter, todos[i].due_on, now)})
    ELSE todos

\* severityOrder of getStaleAssignments.
SeverityOrder(severity) ==
    CASE severity = "critical" -> 4 [] severity = "high" -> 3
      [] severity = "medium" -> 2 [] severity = "low" -> 1 [] OTHER -> 0

\* staleAssignments.sort(...): by severity, then by days since activity, both
\* descending.
SortStale(items) ==
    LET byDays == Sort(items, [i \in 1..Len(items) |-> 0 - items[i].days_since_activity])
    IN  Sort(byDays, [i \in 1..Len(byDays) |-> 0 - SeverityOrder(byDays[i].severity)])

UserSummary(user) == [id |-> user.id, name |-> user.name, email |-> user.email_address]

\* The payload of a call that reached its end.
Payload(todos, cards, scheduleEntries, items) ==
    CASE tool = "get_my_assignments" ->
           LET filtered == FilterByDue(todos)
           IN  [user |-> UserSummary(targetUser),
                assignments |->
                    [todos |-> SortByDue(filtered),
                     cards |-> cards,
                     schedule_entries |->
                         Sort(scheduleEntries,
                              [i \in 1..Len(scheduleEntries) |-> scheduleEntries[i].starts_at]),
                     total_count |-> Len(filtered) + Len(cards) + Len(scheduleEntries)],
                filters_applied |->
                    [include_completed |-> Has("include_completed") /\ args.include_completed,
                     due_date_filter |->
                         IF Has("due_date_filter") THEN args.due_date_filter ELSE "none"]]
      [] tool = "get_user_assignments" ->
           [target_user |-> UserSummary(targetUser),
            assignments |->
                [todos |-> SortByDue(todos), cards |-> cards,
                 total_count |-> Len(todos) + Len(cards)],
            search_criteria |-> [user_identifier |-> args.user_identifier]]
      [] tool = "find_assignments_by_keyword" ->
           [search_criteria |->
                [query |-> args.query,
                 assignee_filter |->
                     IF targetUser # Null
                     THEN [id |-> targetUser.id, name |-> targetUser.name]
                     ELSE AllUsers],
            results |-> Sort(items, [i \in 1..Len(items) |-> 0 - items[i].relevance_score]),
            summary |-> [total_matches |-> Len(items)]]
      [] tool = "get_stale_assignments" ->
           [stale_assignments |-> SortStale(items),
            summary |-> [total_stale |-> Len(items)],
            analysis_criteria |->
                [days_stale_threshold |-> (now - StaleThreshold) \div Days(1),
                 include_unassigned |->
                     ~(Has("include_unassigned") /\ args.include_unassigned = FALSE)]]
      [] tool = "get_assignment_timeline" ->
           [all_items |-> Sort(items, [i \in 1..Len(items) |-> items[i].date_object]),
            summary |-> [total_items |-> Len(items)],
            settings |->
                [user_filter |->
                     IF targetUser # Null
                     THEN [id |-> targetUser.id, name |-> targetUser.name]
                     ELSE AllUsers]]

\* The payload of the outer catch.
ErrorPayload(details) ==
    [error |-> CASE tool = "get_my_assignments" -> "Failed to fetch assignments"
                 [] tool = "get_user_assignments" -> "Failed to fetch user assignments"
                 [] tool = "find_assignments_by_keyword" -> "Failed to search assignments"
                 [] tool = "get_stale_assignments" -> "Failed to analyze stale assignments"
                 [] tool = "get_assignment_timeline" ->
                        "Failed to generate assignment timeline"
                 [] tool = "get_assignment_workload" -> "Failed to analyze workload",
     details |-> details]
    @@ (CASE tool = "get_user_assignments" -> [user_identifier |-> args.user_identifier]
          [] tool = "find_assignments_by_keyword" -> [query |-> args.query]
          [] OTHER -> [details |-> details])

\* getUserAssignments: the payload when findBestUserMatch finds no user.
UserNotFound(suggestions) ==
    [error |-> "User not found",
     searched_for |-> args.user_identifier,
     suggestions |-> [i \in 1..Len(suggestions) |->
                         UserSummary(suggestions[i]) @@ [title |-> "No title"]],
     available_users |-> [i \in 1..Len(SliceTo(AllPeople, 10)) |-> UserSummary(AllPeople[i])]]

(***************************************************************************)
(* Aggregation: getAssignmentWorkload                                      *)
(***************************************************************************)

\* Whether the tool counts assignments per person in place of listing them.
Counts == tool = "get_assignment_workload"

\* The value workloadMap.set gives a person.
NewWorkload(person) ==
    [person |-> UserSummary(person) @@ [title |-> "No title"],
     active_todos |-> 0,
     completed_todos |-> 0,
     overdue_todos |-> 0,
     cards |-> 0,
     projects |-> <<>>,
     overdue_details |-> <<>>]

\* A workloadMap that gives no person a value.
NewWorkloadMap_empty(people) == <<>>

\* allPeople.forEach(person => workloadMap.set(person.id, ...)): the values
\* of the map in insertion order, one for each id of the people list.
NewWorkloadMap(people) ==
    LET first == {i \in 1..Len(people) :
                     \A j \in 1..(i - 1) : people[j].id # people[i].id}
        last(i) == CHOOSE j \in 1..Len(people) :
                       /\ people[j].id = people[i].id
                       /\ \A k \in (j + 1)..Len(people) : people[k].id # people[i].id
        ordered == Pick([i \in 1..Len(people) |-> i], first)
    IN  [n \in 1..Len(ordered) |-> NewWorkload(people[last(ordered[n])])]

RECURSIVE HitsOf(_, _)
\* The items that name the person among their assignees, in order, each as
\* often as it names the person.
HitsOf(items, id) ==
    IF items = <<>> THEN <<>>
    ELSE LET first == Head(items)
             times == Cardinality({j \in 1..Len(first.assignees) :
                                      first.assignees[j].id = id})
         IN  [j \in 1..times |-> first] \o HitsOf(Tail(items), id)

\* workload.projects.add(project.name)
AddProject(projects, name) ==
    IF \E i \in 1..Len(projects) : projects[i] = name THEN projects
    ELSE Append(projects, name)

\* todos.forEach(...) with the completed todos checked for being overdue as
\* well.
CountTodos_overdueCompleted(map, p, l) ==
    [n \in 1..Len(map) |->
        LET hits == HitsOf(Todos(p, l), map[n].person.id)
            active == Pick(hits, {i \in 1..Len(hits) : ~hits[i].completed})
            overdue == Pick(hits, {i \in 1..Len(hits) :
                                      /\ hits[i].due_on # NoDue
                                      /\ NewDate(hits[i].due_on) < now})
        IN  [map[n] EXCEPT
                !.projects = IF hits = <<>> THEN @ ELSE AddProject(@, Projects[p].name),
                !.completed_todos = @ + Len(hits) - Len(active),
                !.active_todos = @ + Len(active),
                !.overdue_todos = @ + Len(overdue),
                !.overdue_details = @ \o
                    [i \in 1..Len(overdue) |->
                        [title |-> overdue[i].content,
                         due_on |-> overdue[i].due_on,
                         project |-> Projects[p].name,
                         todolist |-> l,
                         days_overdue |->
                             (now - NewDate(overdue[i].due_on)) \div Days(1)]]]]

\* todos.forEach(...) of getAssignmentWorkload: the todos of todo-list l of
\* project p counted for every person of the map.
CountTodos(map, p, l) ==
    [n \in 1..Len(map) |->
        LET hits == HitsOf(Todos(p, l), map[n].person.id)
            active == Pick(hits, {i \in 1..Len(hits) : ~hits[i].completed})
            overdue == Pick(active, {i \in 1..Len(active) :
                                        /\ active[i].due_on # NoDue
                                        /\ NewDate(active[i].due_on) < now})
        IN  [map[n] EXCEPT
                !.projects = IF hits = <<>> THEN @ ELSE AddProject(@, Projects[p].name),
                !.completed_todos = @ + Len(hits) - Len(active),
                !.active_todos = @ + Len(active),
                !.overdue_todos = @ + Len(overdue),
                !.overdue_details = @ \o
                    [i \in 1..Len(overdue) |->
                        [title |-> overdue[i].content,
                         due_on |-> overdue[i].due_on,
                         project |-> Projects[p].name,
                         todolist |-> l,
                         days_overdue |->
                             (now - NewDate(overdue[i].due_on)) \div Days(1)]]]]

\* column.cards.forEach(...) of getAssignmentWorkload.
CountCards(map, p) ==
    [n \in 1..Len(map) |->
        LET hits == HitsOf(Cards(p), map[n].person.id)
        IN  [map[n] EXCEPT
                !.cards = @ + Len(hits),
                !.projects = IF hits = <<>> THEN @ ELSE AddProject(@, Projects[p].name)]]

\* Math.round(x * 100) / 100 of the quotient a / b, in hundredths.
RoundedHundredths(a, b) == (2 * 100 * a + b) \div (2 * b)

\* The callback of Array.from(workloadMap.values()).map with completed todos
\* counted in total_workload.
WorkloadEntry_countsCompleted(workload) ==
    LET totalWorkload == workload.active_todos + workload.completed_todos + workload.cards
    IN  workload @@
        [total_workload |-> totalWorkload,
         completion_rate |-> 0,
         workload_status |->
             IF totalWorkload = 0 THEN "no_assignments"
             ELSE IF totalWorkload <= 3 THEN "light"
             ELSE IF totalWorkload <= 8 THEN "moderate"
             ELSE IF totalWorkload <= 15 THEN "heavy" ELSE "overloaded",
         risk_level |->
             IF workload.overdue_todos > 5 THEN "high"
             ELSE IF workload.overdue_todos > 2 THEN "medium"
             ELSE IF workload.overdue_todos > 0 THEN "low" ELSE "none"]

\* The callback of Array.from(workloadMap.values()).map: the entry of
\* workloadAnalysis of a person.  completion_rate is in hundredths of a per
\* cent.
WorkloadEntry(workload) ==
    LET totalWorkload == workload.active_todos + workload.cards
    IN  workload @@
        [total_workload |-> totalWorkload,
         completion_rate |->
             IF workload.completed_todos > 0
             THEN RoundedHundredths(100 * workload.completed_todos,
                                    workload.completed_todos + workload.active_todos)
             ELSE 0,
         workload_status |->
             IF totalWorkload = 0 THEN "no_assignments"
             ELSE IF totalWorkload <= 3 THEN "light"
             ELSE IF totalWorkload <= 8 THEN "moderate"
             ELSE IF totalWorkload <= 15 THEN "heavy" ELSE "overloaded",
         risk_level |->
             IF workload.overdue_todos > 5 THEN "high"
             ELSE IF workload.overdue_todos > 2 THEN "medium"
             ELSE IF workload.overdue_todos > 0 THEN "low" ELSE "none"]

RECURSIVE SumOf(_)
\* Array.prototype.reduce((sum, w) => sum + w, 0)
SumOf(numbers) == IF numbers = <<>> THEN 0 ELSE Head(numbers) + SumOf(Tail(numbers))

\* workloadAnalysis.sort(...): by overdue_todos or by total_workload,
\* descending.
SortWorkloads(workloads) ==
    Sort(workloads, [i \in 1..Len(workloads) |->
                       IF Has("sort_by") /\ args.sort_by = "overdue_count"
                       THEN 0 - workloads[i].overdue_todos
                       ELSE 0 - workloads[i].total_workload])

\* The payload of getAssignmentWorkload.
WorkloadPayload(map) ==
    LET workloadAnalysis == SortWorkloads([n \in 1..Len(map) |-> WorkloadEntry(map[n])])
        all == 1..Len(workloadAnalysis)
        status(name) == Cardinality({n \in all : workloadAnalysis[n].workload_status = name})
    IN  [team_metrics |->
             [total_people |-> Len(workloadAnalysis),
              people_with_assignments |->
                  Cardinality({n \in all : workloadAnalysis[n].total_workload > 0}),
              total_active_todos |-> SumOf([n \in all |-> workloadAnalysis[n].active_todos]),
              total_overdue_todos |-> SumOf([n \in all |-> workloadAnalysis[n].overdue_todos]),
              total_cards |-> SumOf([n \in all |-> workloadAnalysis[n].cards]),
              workload_distribution |->
                  [no_assignments |-> status("no_assignments"), light |-> status("light"),
                   moderate |-> status("moderate"), heavy |-> status("heavy"),
                   overloaded |-> status("overloaded")]],
         individual_workloads |-> workloadAnalysis,
         analysis_settings |->
             [sort_by |-> IF Has("sort_by") THEN args.sort_by ELSE "workload"]]

(***************************************************************************)
(* Aggregation: the walk                                                   *)
(***************************************************************************)

\* The arguments each tool is called with.
ArgsOf(name) ==
    CASE name = "get_my_assignments" ->
           {[include_completed |-> FALSE],
            [include_completed |-> FALSE, due_date_filter |-> "none"],
            [include_completed |-> TRUE, due_date_filter |-> "overdue"]}
      [] name = "get_user_assignments" ->
           {[user_identifier |-> <<"1">>], [user_identifier |-> <<"j", "o", "h", "n">>]}
      [] name = "find_assignments_by_keyword" ->
           {[query |-> <<"j", "o">>],
            [query |-> <<"j", "o">>, assignee |-> <<"2">>],
            [query |-> <<"j", "o">>, assignee |-> <<"z", "z">>]}
      [] name = "get_stale_assignments" ->
           {[include_unassigned |-> FALSE], [include_unassigned |-> TRUE, days_stale |-> 9],
            [include_unassigned |-> TRUE, days_stale |-> 0], [days_stale |-> 7]}
      [] name = "get_assignment_timeline" ->
           {[include_schedule_entries |-> TRUE], [include_schedule_entries |-> FALSE],
            [user_id |-> 2], [user_id |-> 99]}
      [] name = "get_assignment_workload" ->
           {[include_overdue_analysis |-> TRUE], [sort_by |-> "overdue_count"]}

\* The first fetch of each tool.
FirstFetch(name) ==
    CASE name = "get_my_assignments" -> "profile"
      [] name \in {"get_user_assignments", "get_assignment_workload"} -> "people"
      [] OTHER -> "projects"

\* Whether the tool reads the card table of a project.
HasCards == tool # "get_assignment_timeline"

\* Whether the tool reads the schedule of a project: getMyAssignments unless
\* due_date_filter is 'none', getAssignmentTimeline unless
\* include_schedule_entries is false.
WantsSchedule ==
    CASE tool = "get_my_assignments" ->
           ~(Has("due_date_filter") /\ args.due_date_filter = "none")
      [] tool = "get_assignment_timeline" ->
           ~(Has("include_schedule_entries") /\ args.include_schedule_entries = FALSE)
      [] OTHER -> FALSE

\* Whether the caller filters by a person: args.assignee of
\* findAssignmentsByKeyword, args.user_id of getAssignmentTimeline.
WantsPerson ==
    CASE tool = "find_assignments_by_keyword" -> Has("assignee") /\ args.assignee # <<>>
      [] tool = "get_assignment_timeline" -> Has("user_id") /\ args.user_id # 0
      [] OTHER -> FALSE

\* The try block a fetch is in, which is where an error thrown by it is
\* caught: the function's ("call"), the project's or the capability's.
CatchOf_callOnly(position) == "call"

CatchOf(position) ==
    CASE position \in {"profile", "people", "projects"} -> "call"
      [] position = "detail" -> "project"
      [] OTHER -> "capability"

\* The fetch that follows the capability at position `after` in a project
\* with dock d: that of the next capability the dock lists and the tool
\* reads, or "next" for the next project.
AfterStage_noDockCheck(after, d) ==
    IF after = "detail" THEN "todoset"
    ELSE IF after \in {"todoset", "todos"} /\ HasCards /\ "kanban_board" \in d THEN "cards"
    ELSE IF after # "schedule" /\ WantsSchedule /\ "schedule" \in d THEN "schedule"
    ELSE "next"

AfterStage(after, d) ==
    IF after = "detail" /\ "todoset" \in d THEN "todoset"
    ELSE IF after \in {"detail", "todoset", "todos"} /\ HasCards /\ "kanban_board" \in d
         THEN "cards"
    ELSE IF after # "schedule" /\ WantsSchedule /\ "schedule" \in d THEN "schedule"
    ELSE "next"

\* How a fetch can end: served with a 2xx response, answered with another
\* status, or rejected (a network error, or the abort of the controller).
\* Once the controller has aborted, every fetch with its signal rejects.
Outcomes_noAbort == {"ok", "non2xx", "rejected"}

\* An abort signal that only the fetches of project details listen to.
Outcomes_detailOnly ==
    IF aborted /\ apc = "detail" THEN {"rejected"} ELSE {"ok", "non2xx", "rejected"}

Outcomes == IF aborted THEN {"rejected"} ELSE {"ok", "non2xx", "rejected"}

\* The request of the pending fetch, logged with its outcome.
Logged(outcome) ==
    fetched' = fetched \cup {<<apc, projectIndex, todolistIndex, outcome = "ok">>}

\* error.message of what the fetch threw.
Message(outcome, text) ==
    IF outcome = "non2xx" THEN text
    ELSE IF aborted THEN "The operation was aborted" ELSE "Network connection lost"

\* The walk moves to the fetch at `position`; past the last project the
\* function returns its payload.
Goto(position) ==
    IF position = "next" /\ projectIndex = Len(Projects)
    THEN /\ apc' = "done"
         /\ result' = (IF Counts THEN WorkloadPayload(workloadMap')
                       ELSE Payload(allTodos', allCards', allScheduleEntries', allItems'))
         /\ projectIndex' = projectIndex
         /\ todolistIndex' = 0
    ELSE /\ apc' = (IF position = "next" THEN "detail" ELSE position)
         /\ projectIndex' = (IF position = "next" THEN projectIndex + 1 ELSE projectIndex)
         /\ todolistIndex' = (IF position = "todos" THEN 1 ELSE 0)
         /\ result' = result

\* The pending fetch threw: control goes to the catch of its try block.
Throw(message) ==
    IF CatchOf(apc) = "call"
    THEN /\ apc' = "done"
         /\ result' = ErrorPayload(message)
         /\ UNCHANGED <<projectIndex, todolistIndex>>
    ELSE IF CatchOf(apc) = "project" THEN Goto("next")
    ELSE Goto(AfterStage(apc, docks[projectIndex]))

AggInit ==
    /\ tool \in AssignmentTools
    /\ args \in ArgsOf(tool)
    /\ apc = FirstFetch(tool)
    /\ projectIndex = 0
    /\ todolistIndex = 0
    /\ docks = [p \in 1..Len(Projects) |-> {}]
    /\ targetUser = Null
    /\ allTodos = <<>>
    /\ allCards = <<>>
    /\ allScheduleEntries = <<>>
    /\ allItems = <<>>
    /\ aborted = FALSE
    /\ abortedAt = "none"
    /\ fetched = {}
    /\ owed = {}
    /\ result = Pending
    /\ workloadMap = <<>>

\* No aggregation is under way.
AggIdle ==
    /\ tool = "none"
    /\ args = [none |-> TRUE]
    /\ apc = "idle"
    /\ projectIndex = 0
    /\ todolistIndex = 0
    /\ docks = <<>>
    /\ targetUser = Null
    /\ allTodos = <<>>
    /\ allCards = <<>>
    /\ allScheduleEntries = <<>>
    /\ allItems = <<>>
    /\ aborted = FALSE
    /\ abortedAt = "none"
    /\ fetched = {}
    /\ owed = {}
    /\ result = Pending
    /\ workloadMap = <<>>

\* The clock of an aggregation call.
CallClock ==
    /\ due_date_filter = "none"
    /\ due_on = NoDue
    /\ now = CallTime
    /\ kept = FALSE
    /\ dpc = "idle"

\* setTimeout(() => controller.abort(), 15000) fires while a fetch is
\* pending.
TimerFires ==
    /\ apc \notin {"idle", "done"}
    /\ ~aborted
    /\ aborted' = TRUE
    /\ abortedAt' = apc
    /\ UNCHANGED <<tool, args, apc, projectIndex, todolistIndex, docks, targetUser,
                   allTodos, allCards, allScheduleEntries, allItems, fetched, owed,
                   result, workloadMap>>
    /\ UNCHANGED <<matchVars, dueVars, dockVars, pureVars, callVars>>

\* getMyAssignments: fetch /my/profile.json.
FetchProfile ==
    /\ apc = "profile"
    /\ \E outcome \in Outcomes :
        /\ Logged(outcome)
        /\ UNCHANGED <<allTodos, allCards, allScheduleEntries, allItems>>
        /\ IF outcome = "ok"
           THEN /\ targetUser' = CurrentUser
                /\ apc' = "projects"
                /\ UNCHANGED <<projectIndex, todolistIndex, result>>
           ELSE /\ targetUser' = targetUser
                /\ Throw(Message(outcome, "Failed to get user profile"))
    /\ UNCHANGED <<tool, args, docks, aborted, abortedAt, owed, workloadMap>>
    /\ UNCHANGED <<matchVars, dueVars, dockVars, pureVars, callVars>>

\* fetch /people.json: getUserAssignments before the projects, and
\* findAssignmentsByKeyword and getAssignmentTimeline after them when the
\* caller filters by a person.
FetchPeople ==
    /\ apc = "people"
    /\ \E outcome \in Outcomes :
        /\ Logged(outcome)
        /\ UNCHANGED <<allTodos, allCards, allScheduleEntries, allItems>>
        /\ IF Counts
           THEN /\ targetUser' = targetUser
                /\ IF outcome = "ok"
                   THEN apc' = "projects" /\ UNCHANGED <<projectIndex, todolistIndex, result>>
                   ELSE Throw(Message(outcome, "Failed to get people"))
           ELSE IF tool = "get_user_assignments"
           THEN IF outcome = "ok"
                THEN LET found == findBestUserMatch(args.user_identifier, AllPeople)
                     IN  /\ targetUser' = found.user
                         /\ apc' = (IF found.user = Null THEN "done" ELSE "projects")
                         /\ result' = (IF found.user = Null
                                       THEN UserNotFound(found.suggestions) ELSE result)
                         /\ UNCHANGED <<projectIndex, todolistIndex>>
                ELSE /\ targetUser' = targetUser
                     /\ Throw(Message(outcome, "Failed to get people"))
           ELSE IF outcome = "ok"
                THEN /\ targetUser' =
                          (IF tool = "find_assignments_by_keyword"
                           THEN findBestUserMatch(args.assignee, AllPeople).user
                           ELSE Find(AllPeople, {i \in 1..Len(AllPeople) :
                                                    AllPeople[i].id = args.user_id}))
                     /\ Goto("next")
                ELSE IF outcome = "non2xx"
                THEN targetUser' = targetUser /\ Goto("next")
                ELSE targetUser' = targetUser /\ Throw(Message(outcome, ""))
    /\ UNCHANGED <<tool, args, docks, aborted, abortedAt, owed, workloadMap>>
    /\ UNCHANGED <<matchVars, dueVars, dockVars, pureVars, callVars>>

\* fetch /projects.json.  The account has projects and the caller names
\* none, so filteredProjects is never empty.
FetchProjects ==
    /\ apc = "projects"
    /\ \E outcome \in Outcomes :
        /\ Logged(outcome)
        /\ UNCHANGED <<allTodos, allCards, allScheduleEntries, allItems>>
        /\ workloadMap' = (IF outcome = "ok" /\ Counts
                           THEN NewWorkloadMap(AllPeople) ELSE workloadMap)
        /\ IF outcome = "ok"
           THEN IF WantsPerson
                THEN apc' = "people" /\ UNCHANGED <<projectIndex, todolistIndex, result>>
                ELSE Goto("next")
           ELSE Throw(Message(outcome, "Failed to get projects"))
    /\ UNCHANGED <<tool, args, docks, targetUser, aborted, abortedAt, owed>>
    /\ UNCHANGED <<matchVars, dueVars, dockVars, pureVars, callVars>>

\* fetch /projects/<id>.json of the project of the loop; a response that is
\* not ok skips the project.
FetchProjectDetail ==
    /\ apc = "detail"
    /\ \E outcome \in Outcomes, dock \in SUBSET DockNames :
        /\ Logged(outcome)
        /\ UNCHANGED <<allTodos, allCards, allScheduleEntries, allItems, workloadMap>>
        /\ IF outcome = "ok"
           THEN /\ docks' = [docks EXCEPT ![projectIndex] = dock]
                /\ Goto(AfterStage("detail", dock))
           ELSE /\ docks' = docks
                /\ IF outcome = "non2xx" THEN Goto("next") ELSE Throw(Message(outcome, ""))
    /\ UNCHANGED <<tool, args, targetUser, aborted, abortedAt, owed>>
    /\ UNCHANGED <<matchVars, dueVars, dockVars, pureVars, callVars>>

\* fetch todosetDock.url; a response that is not ok skips the todo-lists.
FetchTodoset ==
    /\ apc = "todoset"
    /\ \E outcome \in Outcomes :
        /\ Logged(outcome)
        /\ UNCHANGED <<allTodos, allCards, allScheduleEntries, allItems, workloadMap>>
        /\ IF outcome = "ok" THEN Goto("todos")
           ELSE IF outcome = "non2xx" THEN Goto(AfterStage("todoset", docks[projectIndex]))
           ELSE Throw(Message(outcome, ""))
    /\ UNCHANGED <<tool, args, docks, targetUser, aborted, abortedAt, owed>>
    /\ UNCHANGED <<matchVars, dueVars, dockVars, pureVars, callVars>>

\* fetch todolist.todos_url of the todo-list of the inner loop.  A response
\* that is not ok moves to the next todo-list; a rejection leaves the loop
\* for the catch around it.
FetchTodos ==
    /\ apc = "todos"
    /\ \E outcome \in Outcomes, served \in SUBSET ((todolistIndex + 1)..NumLists) :
        /\ Logged(outcome)
        /\ allTodos' = (IF outcome = "ok" /\ SplitLists
                        THEN allTodos \o KeptTodos(projectIndex, todolistIndex)
                        ELSE allTodos)
        /\ allItems' = (IF outcome = "ok" /\ ~SplitLists /\ ~Counts
                        THEN allItems \o KeptTodos(projectIndex, todolistIndex)
                        ELSE allItems)
        /\ workloadMap' = (IF outcome = "ok" /\ Counts
                           THEN CountTodos(workloadMap, projectIndex, todolistIndex)
                           ELSE workloadMap)
        /\ UNCHANGED <<allCards, allScheduleEntries>>
        /\ IF outcome = "rejected"
           THEN /\ owed' = (IF aborted THEN owed
                            ELSE owed \cup {<<projectIndex, l>> : l \in served})
                /\ Throw(Message(outcome, ""))
           ELSE /\ owed' = owed
                /\ IF todolistIndex < NumLists
                   THEN /\ todolistIndex' = todolistIndex + 1
                        /\ UNCHANGED <<apc, projectIndex, result>>
                   ELSE Goto(AfterStage("todos", docks[projectIndex]))
    /\ UNCHANGED <<tool, args, docks, targetUser, aborted, abortedAt>>
    /\ UNCHANGED <<matchVars, dueVars, dockVars, pureVars, callVars>>

\* fetch the card table of the project.
FetchCardTable ==
    /\ apc = "cards"
    /\ \E outcome \in Outcomes :
        /\ Logged(outcome)
        /\ allCards' = (IF outcome = "ok" /\ SplitLists
                        THEN allCards \o KeptCards(projectIndex) ELSE allCards)
        /\ allItems' = (IF outcome = "ok" /\ ~SplitLists /\ ~Counts
                        THEN allItems \o KeptCards(projectIndex) ELSE allItems)
        /\ workloadMap' = (IF outcome = "ok" /\ Counts
                           THEN CountCards(workloadMap, projectIndex) ELSE workloadMap)
        /\ UNCHANGED <<allTodos, allScheduleEntries>>
        /\ IF outcome = "rejected" THEN Throw(Message(outcome, ""))
           ELSE Goto(AfterStage("cards", docks[projectIndex]))
    /\ UNCHANGED <<tool, args, docks, targetUser, aborted, abortedAt, owed>>
    /\ UNCHANGED <<matchVars, dueVars, dockVars, pureVars, callVars>>

\* fetch scheduleDock.url.
FetchSchedule ==
    /\ apc = "schedule"
    /\ \E outcome \in Outcomes :
        /\ Logged(outcome)
        /\ allScheduleEntries' = (IF outcome = "ok" /\ tool = "get_my_assignments"
                                  THEN allScheduleEntries \o KeptEntries(projectIndex)
                                  ELSE allScheduleEntries)
        /\ allItems' = (IF outcome = "ok" /\ tool # "get_my_assignments"
                        THEN allItems \o KeptEntries(projectIndex) ELSE allItems)
        /\ UNCHANGED <<allTodos, allCards>>
        /\ IF outcome = "rejected" THEN Throw(Message(outcome, ""))
           ELSE Goto(AfterStage("schedule", docks[projectIndex]))
    /\ UNCHANGED <<tool, args, docks, targetUser, aborted, abortedAt, owed, workloadMap>>
    /\ UNCHANGED <<matchVars, dueVars, dockVars, pureVars, callVars>>

(***************************************************************************)
(* Aggregation: properties                                                 *)
(***************************************************************************)

Done == apc = "done"

\* Whether a payload is that of the outer catch or of a user not found.
IsError(r) == "error" \in DOMAIN r

\* The items a payload returns.
ItemsOf(r) ==
    IF "assignments" \in DOMAIN r
    THEN r.assignments.todos \o r.assignments.cards
         \o (IF "schedule_entries" \in DOMAIN r.assignments
             THEN r.assignments.schedule_entries ELSE <<>>)
    ELSE IF "results" \in DOMAIN r THEN r.results
    ELSE IF "stale_assignments" \in DOMAIN r THEN r.stale_assignments
    ELSE IF "all_items" \in DOMAIN r THEN r.all_items
    ELSE <<>>

\* The errors or warnings a payload lists.
ErrorsOf(r) ==
    IF "errors" \in DOMAIN r THEN r.errors
    ELSE IF "warnings" \in DOMAIN r THEN r.warnings
    ELSE <<>>

Ids(seq) == {seq[i].id : i \in 1..Len(seq)}

Range(seq) == {seq[i] : i \in 1..Len(seq)}

IsPrefix(s, t) == Len(s) <= Len(t) /\ SubSeq(t, 1, Len(s)) = s

\* The requests of a kind that were served with a 2xx response, and those
\* that were not.
ServedRequests(kind) == {f \in fetched : f[1] = kind /\ f[4]}

FailedRequests(kind) == {f \in fetched : f[1] = kind /\ ~f[4]}

Requested(kind, p) == \E f \in fetched : f[1] = kind /\ f[2] = p

\* The todos collected that the caller's due-date filter lets through.
Wanted(todos) == IF tool = "get_my_assignments" THEN FilterByDue(todos) ELSE todos

\* What the tool keeps of the response to a served request.
KeptOf(f) ==
    CASE Counts -> <<>>
      [] ~Counts /\ f[1] = "todos" -> Wanted(KeptTodos(f[2], f[3]))
      [] ~Counts /\ f[1] = "cards" -> KeptCards(f[2])
      [] ~Counts /\ f[1] = "schedule" -> KeptEntries(f[2])
      [] OTHER -> <<>>

\* Every item kept of a served request is in the payload.
ServedItemsReturned == \A f \in fetched : f[4] => Ids(KeptOf(f)) \subseteq Ids(ItemsOf(result))

\* Every item collected is in the payload, as it was collected.
CollectedReturned ==
    Range(Wanted(allTodos)) \cup Range(allCards) \cup Range(allScheduleEntries)
        \cup Range(allItems) \subseteq Range(ItemsOf(result))

\* C1: when the project-detail fetch of a project fails and that of another
\* succeeds, the payload returned lists the failed project among its errors
\* and holds items of served projects only.
C1_ErrorsNameFailedProjects ==
    (Done /\ FailedRequests("detail") # {} /\ ServedRequests("detail") # {}) =>
        /\ ~IsError(result)
        /\ \A f \in FailedRequests("detail") :
               \E i \in 1..Len(ErrorsOf(result)) :
                   ErrorsOf(result)[i].project_id = Projects[f[2]].id
        /\ \A i \in 1..Len(ItemsOf(result)) :
               \E f \in ServedRequests("detail") :
                   ItemsOf(result)[i].project_id = Projects[f[2]].id
        /\ ServedItemsReturned

\* Every item collected is in the payload, whatever its due date.
AllCollectedReturned ==
    Range(allTodos) \cup Range(allCards) \cup Range(allScheduleEntries)
        \cup Range(allItems) \subseteq Range(ItemsOf(result))

\* C2, as stated: each step of the walk leaves the items collected so far in
\* place and unaltered, only appending to them, and when the last fetch of
\* the call fails, the payload holds every item collected before it.
C2_Original ==
    [][/\ IsPrefix(allTodos, allTodos')
       /\ IsPrefix(allCards, allCards')
       /\ IsPrefix(allScheduleEntries, allScheduleEntries')
       /\ IsPrefix(allItems, allItems')
       /\ (apc' = "done" /\ (\E f \in fetched' \ fetched : ~f[4])) => AllCollectedReturned']_vars

\* C2: each step of the walk leaves the items collected so far in place and
\* unaltered, only appending to them, and the step that returns puts in the
\* payload every collected card, schedule entry and item, and every
\* collected todo that passes the caller's due-date filter.
C2_CollectedOnlyGrows ==
    [][/\ IsPrefix(allTodos, allTodos')
       /\ IsPrefix(allCards, allCards')
       /\ IsPrefix(allScheduleEntries, allScheduleEntries')
       /\ IsPrefix(allItems, allItems')
       /\ (apc' = "done" => CollectedReturned')]_vars

\* C2's case: a call that collected items of project A, then failed to fetch
\* project B, and returned.
C2_Witness ==
    /\ Done
    /\ <<"detail", 2, 0, FALSE>> \in fetched
    /\ \E f \in ServedRequests("todos") : f[2] = 1 /\ KeptOf(f) # <<>>
    /\ Len(ItemsOf(result)) > 0

\* C3: when the fetch of one todo-list of a project fails, the todos of every
\* other todo-list of the project whose own fetch succeeds, or would succeed,
\* are in the payload.
C3_OtherListsReturned ==
    (Done /\ ~IsError(result)) =>
        /\ ServedItemsReturned
        /\ \A pl \in owed :
               Ids(Wanted(KeptTodos(pl[1], pl[2]))) \subseteq Ids(ItemsOf(result))

\* The projects whose detail was served with a dock that lists no todoset.
NoTodoset ==
    {p \in 1..Len(Projects) : <<"detail", p, 0, TRUE>> \in fetched /\ "todoset" \notin docks[p]}

\* The walk has left project p.
Left(p) == Done \/ projectIndex > p

\* The collected todos.
CollectedTodos ==
    Range(allTodos) \cup {item \in Range(allItems) : item.type = "todo"}

\* C4: a project whose dock lists no todoset gets no todo-set or todo-list
\* request and contributes no todo; the call does not end in an error for
\* it; its card table and schedule are requested where the dock lists them
\* and the tool reads them, what is served of them is collected, and every
\* other project is requested.
C4_NoTodosetNoError ==
    \A p \in NoTodoset :
        /\ ~Requested("todoset", p) /\ ~Requested("todos", p)
        /\ \A item \in CollectedTodos : item.project_id # Projects[p].id
        /\ Done => (~IsError(result) /\ ErrorsOf(result) = <<>> /\ ServedItemsReturned)
        /\ Done => \A q \in 1..Len(Projects) : Requested("detail", q)
        /\ (HasCards /\ "kanban_board" \in docks[p]
               /\ (Left(p) \/ (projectIndex = p /\ apc = "schedule")))
           => Requested("cards", p)
        /\ (WantsSchedule /\ "schedule" \in docks[p] /\ Left(p)) => Requested("schedule", p)

\* C4's case: a call that returned the cards of project A, whose dock lists
\* no todoset, and the todos of project B.
C4_Witness ==
    /\ Done
    /\ 1 \in NoTodoset
    /\ \E f \in ServedRequests("cards") : f[2] = 1 /\ KeptOf(f) # <<>>
    /\ \E f \in ServedRequests("todos") : f[2] = 2 /\ KeptOf(f) # <<>>

\* C6, as stated: whatever fetch was pending when the timer fired, the call
\* does not end in an error and returns the items of the served requests.
C6_Original ==
    (Done /\ abortedAt # "none") => (~IsError(result) /\ ServedItemsReturned)

\* C6: when the timer fires during the fetch of the profile, the people or
\* the project list, the call ends in the error payload of the outer catch
\* with nothing collected; when it fires during the fetch of a project's
\* detail or of a capability, the call ends in its ordinary payload with the
\* items of every served request.  From the abort on, no request is served.
C6_TimeoutByPhase ==
    /\ [](Done /\ abortedAt # "none" =>
             IF abortedAt \in {"profile", "people", "projects"}
             THEN IsError(result) /\ ItemsOf(result) = <<>> /\ ServedRequests("todos") = {}
             ELSE ~IsError(result) /\ ServedItemsReturned /\ CollectedReturned)
    /\ [][aborted => {f \in fetched' : f[4]} = {f \in fetched : f[4]}]_vars

\* C6's case: the timer fired during the fetch of a todo-list, after another
\* list's todos had been collected, and the call returned them.
C6_Witness ==
    /\ Done
    /\ abortedAt = "todos"
    /\ \E f \in ServedRequests("todos") : KeptOf(f) # <<>>
    /\ ServedItemsReturned

\* C9: when the caller filters by a person, every item with assignees in the
\* payload is assigned to that person, and when the person cannot be
\* resolved the payload holds no such item or reports the person as not
\* found.
C9_OnlyRequestedPerson ==
    (Done /\ WantsPerson /\ ~IsError(result)) =>
        \A item \in Range(ItemsOf(result)) :
            "assignees" \in DOMAIN item =>
                (targetUser # Null /\ HasAssignee(item, targetUser.id))

\* The due-date filters that name a bucket of dates.
BucketFilters == {"overdue", "today", "this_week", "next_week"}

\* Whether an instant falls in the bucket of a filter at time t.
InBucket(filter, instant, t) ==
    CASE filter = "overdue" -> instant < t
      [] filter = "today" -> DateOf(instant) = DateOf(t)
      [] filter = "this_week" ->
             instant >= WeekStart(t, 0) /\ instant < WeekStart(t, 0) + WeekMs
      [] filter = "next_week" ->
             instant >= WeekStart(t, 7) /\ instant < WeekStart(t, 7) + WeekMs

\* C11: when get_my_assignments is called with a bucket due_date_filter, every
\* todo returned has a due_on, no card is returned (a card has no due date),
\* and every schedule entry returned starts inside the bucket.
C11_BucketOnlyDated ==
    (Done /\ tool = "get_my_assignments" /\ ~IsError(result)
          /\ Has("due_date_filter") /\ args.due_date_filter \in BucketFilters) =>
        /\ \A todo \in Range(result.assignments.todos) : todo.due_on # NoDue
        /\ result.assignments.cards = <<>>
        /\ \A entry \in Range(result.assignments.schedule_entries) :
               InBucket(args.due_date_filter, entry.starts_at, now)

\* C15: get_stale_assignments flags an item as stale exactly when the later
\* of its created_at and updated_at is earlier than now minus days_stale
\* days, days_stale being the caller's value, and 7 when the caller passes
\* none.
C15_StaleByThreshold ==
    (Done /\ tool = "get_stale_assignments" /\ ~IsError(result)) =>
        LET days == IF Has("days_stale") THEN args.days_stale ELSE 7
            later(item) == IF item.created_at > item.updated_at
                           THEN item.created_at ELSE item.updated_at
        IN  \A item \in Range(result.stale_assignments) :
                item.is_stale <=> (later(item) < now - Days(days))

\* C18: get_assignment_workload returns one entry for each person of the
\* people list, also for people without assignments, and when no todo-list
\* and no card table was served (no work item, or every project's fetch
\* failed) every entry has total_workload 0 and workload_status
\* no_assignments.
C18_OneEntryPerPerson ==
    (Done /\ Counts /\ ~IsError(result)) =>
        LET workloads == result.individual_workloads
        IN  /\ Len(workloads) = Len(AllPeople)
            /\ result.team_metrics.total_people = Len(AllPeople)
            /\ \A i \in 1..Len(AllPeople) :
                   Cardinality({n \in 1..Len(workloads) :
                                   workloads[n].person.id = AllPeople[i].id}) = 1
            /\ (ServedRequests("todos") = {} /\ ServedRequests("cards") = {}) =>
                   \A n \in 1..Len(workloads) :
                       /\ workloads[n].total_workload = 0
                       /\ workloads[n].workload_status = "no_assignments"

\* C18's case: the people and the project list were served, the fetch of
\* every project failed, and the call returned its entries.
C18_Witness ==
    /\ Done
    /\ Counts
    /\ ~IsError(result)
    /\ \A p \in 1..Len(Projects) : <<"detail", p, 0, FALSE>> \in fetched
    /\ Len(result.individual_workloads) = Len(AllPeople)
    /\ \A n \in 1..Len(result.individual_workloads) :
           result.individual_workloads[n].workload_status = "no_assignments"

\* Whether an item is a todo, a card or a schedule entry.
KindOf(item) ==
    IF "todolist_name" \in DOMAIN item THEN "todo"
    ELSE IF "column_name" \in DOMAIN item THEN "card"
    ELSE "schedule_entry"

\* The source lists todos by todo-list and position, cards by column and
\* position and schedule entries by position; the ids of the account rise in
\* that order within each project.
Before(a, b) == a.project_id = b.project_id /\ KindOf(a) = KindOf(b) /\ a.id < b.id

After(a, b) == Before(b, a)

\* The items of a project are in the source's order.
NaturalOrder(seq) == \A i, j \in 1..Len(seq) : i < j => ~After(seq[i], seq[j])

\* The lists a payload returns.
ListsOf(r) ==
    IF "assignments" \in DOMAIN r
    THEN {r.assignments.todos, r.assignments.cards}
         \cup (IF "schedule_entries" \in DOMAIN r.assignments
               THEN {r.assignments.schedule_entries} ELSE {})
    ELSE {ItemsOf(r)}

\* C20, as stated: in every list returned, the items of a project are in the
\* source's order.
C20_Original ==
    (Done /\ ~IsError(result)) => \A list \in ListsOf(result) : NaturalOrder(list)

\* The key a tool sorts an item by before it returns.
SortKeyOf(item) ==
    CASE tool \in {"get_my_assignments", "get_user_assignments"} ->
           (CASE KindOf(item) = "todo" ->
                   <<IF item.due_on # NoDue THEN NewDate(item.due_on) ELSE Infinity>>
              [] KindOf(item) = "schedule_entry" -> <<item.starts_at>>
              [] OTHER -> <<0>>)
      [] tool = "find_assignments_by_keyword" -> <<item.relevance_score>>
      [] tool = "get_stale_assignments" -> <<item.severity, item.days_since_activity>>
      [] tool = "get_assignment_timeline" -> <<item.date_object>>
      [] OTHER -> <<0>>

\* C20: the items are collected in the source's order within each project;
\* in every list returned, items of a project with the same sort key (due
\* date of a todo, start of a schedule entry, relevance score, severity and
\* days since activity, date of a timeline item) are in the source's order,
\* and so are all cards of get_my_assignments and get_user_assignments.
C20_OrderAmongEqualKeys ==
    /\ NaturalOrder(allTodos) /\ NaturalOrder(allCards)
    /\ NaturalOrder(allScheduleEntries) /\ NaturalOrder(allItems)
    /\ (Done /\ ~IsError(result)) =>
           \A list \in ListsOf(result) :
               \A i, j \in 1..Len(list) :
                   (i < j /\ SortKeyOf(list[i]) = SortKeyOf(list[j]))
                       => ~After(list[i], list[j])

\* C20's case: get_my_assignments returned two todos of a project with the
\* same due date in the source's order, after sorting a third, listed
\* before them in the source, behind them.
C20_Witness ==
    /\ Done
    /\ tool = "get_my_assignments"
    /\ ~IsError(result)
    /\ LET todos == result.assignments.todos
       IN  \E i, j, k \in 1..Len(todos) :
               /\ i < j /\ j < k
               /\ Before(todos[i], todos[j])
               /\ todos[i].due_on = todos[j].due_on
               /\ After(todos[j], todos[k])

\* C23: get_stale_assignments takes include_unassigned as true when the
\* caller omits it: every incomplete todo and every card without assignees
\* of a served request is then in the payload, stale and overdue or not, and
\* analysis_criteria reports the include_unassigned that was applied.
C23_UnassignedByDefault ==
    (Done /\ tool = "get_stale_assignments" /\ ~IsError(result)
          /\ ~Has("include_unassigned")) =>
        /\ \A f \in ServedRequests("todos") :
               \A todo \in Range(Todos(f[2], f[3])) :
                   (~todo.completed /\ todo.assignees = <<>>) =>
                       todo.id \in Ids(result.stale_assignments)
        /\ \A f \in ServedRequests("cards") :
               \A card \in Range(Cards(f[2])) :
                   card.assignees = <<>> => card.id \in Ids(result.stale_assignments)
        /\ result.analysis_criteria.include_unassigned

\* C24: every todo, card and schedule entry get_my_assignments returns names
\* the current user among its assignees or participants, every returned todo
\* is incomplete unless include_completed is set, and total_count is the
\* number of returned todos, cards and schedule entries.
C24_OnlyMine ==
    (Done /\ tool = "get_my_assignments" /\ ~IsError(result)) =>
        LET mine == result.assignments
            takesPart(entry) ==
                \E i \in 1..Len(entry.participants) :
                    entry.participants[i].id = result.user.id
        IN  /\ \A todo \in Range(mine.todos) :
                   /\ HasAssignee(todo, result.user.id)
                   /\ (Has("include_completed") /\ args.include_completed) \/ ~todo.completed
            /\ \A card \in Range(mine.cards) : HasAssignee(card, result.user.id)
            /\ \A entry \in Range(mine.schedule_entries) : takesPart(entry)
            /\ mine.total_count =
                   Len(mine.todos) + Len(mine.cards) + Len(mine.schedule_entries)

\* The fetches of the walk.  A fetch settles: it is answered, fails, or is
\* rejected through the abort signal.
Walk ==
    \/ FetchProfile \/ FetchPeople \/ FetchProjects \/ FetchProjectDetail
    \/ FetchTodoset \/ FetchTodos \/ FetchCardTable \/ FetchSchedule

\* How far the walk has come: the project it is at and, within the project,
\* the fetch that is pending.
Progress ==
    LET span == NumLists + 4
        stage == CASE apc \in {"profile", "people", "detail"} -> 0
                   [] apc \in {"projects", "todoset"} -> 1
                   [] apc = "todos" -> 1 + todolistIndex
                   [] apc = "cards" -> NumLists + 2
                   [] OTHER -> NumLists + 3
    IN  IF Done THEN (Len(Projects) + 1) * span ELSE projectIndex * span + stage

\* C28: the one abort timer of a call is shared by all its fetches.  Once it
\* has fired no request is served any more, so the payload holds items of
\* requests served before the abort only; when it fired inside the loop
\* over the projects the loop still visits every remaining project and the
\* call returns its ordinary payload; and wherever it fired the call does
\* not hang: until it has returned a payload a fetch is pending that can
\* settle, and every fetch that settles brings the walk further.
C28_AbortSharedByAllFetches ==
    /\ [][aborted => {f \in fetched' : f[4]} = {f \in fetched : f[4]}]_vars
    /\ [](Done /\ abortedAt # "none" =>
             /\ result # Pending
             /\ \A item \in Range(ItemsOf(result)) :
                    \E f \in fetched : f[4] /\ item.id \in Ids(KeptOf(f))
             /\ abortedAt \notin {"profile", "people", "projects"} =>
                    /\ ~IsError(result)
                    /\ \A p \in 1..Len(Projects) : Requested("detail", p))
    /\ [](aborted => Done \/ ENABLED Walk)
    /\ [][aborted => Progress' > Progress]_vars

\* C28's case: the timer fired during the fetch of the first project's
\* todo-set after nothing had been collected, the second project was still
\* visited, no later request was served and the call returned an empty
\* ordinary payload.
C28_Witness ==
    /\ Done
    /\ abortedAt = "todoset"
    /\ projectIndex = Len(Projects)
    /\ \E f \in fetched : f[1] = "todoset" /\ f[2] = 1 /\ ~f[4]
    /\ Requested("detail", Len(Projects))
    /\ \A f \in fetched : f[2] = Len(Projects) => ~f[4]
    /\ ~IsError(result)

\* The assignee slots of the served todo-lists that name the id.
TodoSlots(id) ==
    {<<f, i, j>> \in ServedRequests("todos") \X (1..3) \X (1..3) :
        /\ j <= Len(Todos(f[2], f[3])[i].assignees)
        /\ Todos(f[2], f[3])[i].assignees[j].id = id}

\* The ids the served todo-lists name among their assignees.
AssigneeIds ==
    {Todos(f[2], f[3])[i].assignees[j].id :
        <<f, i, j>> \in {<<g, m, n>> \in ServedRequests("todos") \X (1..3) \X (1..3) :
                            n <= Len(Todos(g[2], g[3])[m].assignees)}}

\* C30: in every get_assignment_workload payload each person's overdue_todos
\* is at most the person's active_todos and is the number of the person's
\* overdue_details; the todos counted for a person are those naming the
\* person, so that an assignee outside the people list is counted for
\* nobody; the five workload_distribution counts add up to total_people; and
\* people_with_assignments is total_people less the no_assignments count.
C30_WorkloadConsistent ==
    (Done /\ Counts /\ ~IsError(result)) =>
        LET workloads == result.individual_workloads
            metrics == result.team_metrics
            spread == metrics.workload_distribution
        IN  /\ \A n \in 1..Len(workloads) :
                   /\ workloads[n].overdue_todos <= workloads[n].active_todos
                   /\ Len(workloads[n].overdue_details) = workloads[n].overdue_todos
                   /\ workloads[n].active_todos + workloads[n].completed_todos
                          = Cardinality(TodoSlots(workloads[n].person.id))
                   /\ workloads[n].person.id \in Ids(AllPeople)
            /\ spread.no_assignments + spread.light + spread.moderate + spread.heavy
                   + spread.overloaded = metrics.total_people
            /\ metrics.people_with_assignments
                   = metrics.total_people - spread.no_assignments

\* C30's case: a payload counted from todo-lists that name an assignee
\* outside the people list, with a person who has overdue todos and a person
\* with no active work.
C30_Witness ==
    /\ Done
    /\ Counts
    /\ ~IsError(result)
    /\ AssigneeIds \ Ids(AllPeople) # {}
    /\ \E n \in 1..Len(result.individual_workloads) :
           result.individual_workloads[n].overdue_todos > 0
    /\ result.team_metrics.workload_distribution.no_assignments > 0
    /\ result.team_metrics.people_with_assignments > 0

(***************************************************************************)
(* calculateAssignmentSeverity on its own                                  *)
(***************************************************************************)

\* The due dates drawn: from twelve days before the call to a month after.
SevDueDates == (Today - 12)..(Today + 31)

\* The created_at instants drawn, around the fourteen days of the age rule.
SevCreated ==
    {NewDate(Today - d) + s : d \in {1, 14, 15, 20}, s \in 0..(SlotsPerDay - 1)}

\* The assignments drawn: todos, with or without due_on, and cards, which
\* have neither due_on nor completed.
SevSubjects ==
    [due_on : SevDueDates \cup {NoDue}, created_at : SevCreated, completed : BOOLEAN]
        \cup [created_at : SevCreated]

SevInit ==
    /\ subject \in SevSubjects
    /\ label = Pending
    /\ labelAgain = Pending
    /\ vpc = "call"

SevIdle ==
    /\ subject = Null
    /\ label = Pending
    /\ labelAgain = Pending
    /\ vpc = "idle"

\* new Date() of calculateAssignmentSeverity: any instant of the call's day.
SevClock ==
    /\ due_date_filter = "none"
    /\ due_on = NoDue
    /\ now \in {NewDate(Today) + s : s \in 0..(SlotsPerDay - 1)}
    /\ kept = FALSE
    /\ dpc = "idle"

\* calculateAssignmentSeverity called twice on the assignment at one instant.
CallSeverity ==
    /\ vpc = "call"
    /\ label' = calculateAssignmentSeverity(subject, now)
    /\ labelAgain' = calculateAssignmentSeverity(subject, now)
    /\ vpc' = "done"
    /\ UNCHANGED <<subject, scoreVars, tierVars>>
    /\ UNCHANGED <<matchVars, dueVars, dockVars, aggVars, callVars>>

(***************************************************************************)
(* Claims about calculateAssignmentSeverity                                *)
(***************************************************************************)

SubjectHasDue == "due_on" \in DOMAIN subject /\ subject.due_on # NoDue

\* C12: the label is critical exactly when the assignment has a due_on in the
\* past and today's date minus due_on is more than 7, at every time of day;
\* so an assignment due exactly 7 days before today is not critical.
C12_CriticalOver7CalendarDays ==
    vpc = "done" =>
        (label = "critical" <=>
            (SubjectHasDue /\ NewDate(subject.due_on) < now
                 /\ DateOf(now) - subject.due_on > 7))

\* Whole days in a span of time, rounded down.
WholeDays(span) == span \div Days(1)

\* The rules of the chain, in whole days.
CriticalRule ==
    SubjectHasDue /\ NewDate(subject.due_on) < now
        /\ WholeDays(NewDate(subject.due_on) - now) < 0 - 7

HighRule ==
    \/ SubjectHasDue /\ NewDate(subject.due_on) < now
    \/ SubjectHasDue /\ WholeDays(NewDate(subject.due_on) - now) <= 1
    \/ /\ WholeDays(now - subject.created_at) > 14
       /\ ~("completed" \in DOMAIN subject /\ subject.completed)

MediumRule == SubjectHasDue /\ WholeDays(NewDate(subject.due_on) - now) <= 7

FirstMatch ==
    CASE CriticalRule -> "critical"
      [] ~CriticalRule /\ HighRule -> "high"
      [] ~CriticalRule /\ ~HighRule /\ MediumRule -> "medium"
      [] OTHER -> "low"

\* C13: for every assignment and instant calculateAssignmentSeverity returns
\* one of critical, high, medium, low, namely the label of the first rule
\* that matches in the order critical, high, medium, low, and a second call
\* on the same assignment at the same instant returns the same label.
C13_FirstMatchChain ==
    vpc = "done" =>
        /\ label \in {"critical", "high", "medium", "low"}
        /\ label = FirstMatch
        /\ labelAgain = label

\* C13's case: an assignment that matches the age rule of high and the rule of
\* medium, and is labelled by the earlier of the two.
C13_Witness ==
    /\ vpc = "done"
    /\ ~CriticalRule
    /\ SubjectHasDue /\ WholeDays(NewDate(subject.due_on) - now) > 1
    /\ WholeDays(now - subject.created_at) > 14
    /\ MediumRule
    /\ label = "high"

\* An incomplete todo with a due date.
IncompleteTodo == SubjectHasDue /\ "completed" \in DOMAIN subject /\ ~subject.completed

\* Days from today's date to the due date.
DueIn == subject.due_on - DateOf(now)

\* C14, as stated: whatever its created_at, an incomplete todo due 10 days
\* ago is critical, due tomorrow high, due in 5 days medium and due in 30 days
\* low.
C14_Original ==
    (vpc = "done" /\ IncompleteTodo) =>
        /\ DueIn = 0 - 10 => label = "critical"
        /\ DueIn = 1 => label = "high"
        /\ DueIn = 5 => label = "medium"
        /\ DueIn = 30 => label = "low"

\* C14: an incomplete todo due 10 days ago is critical and one due tomorrow is
\* high, whatever its created_at; one due in 5 days is medium and one due in
\* 30 days is low when it was created at most 14 whole days ago, and both are
\* high when it was created more than 14 whole days ago.
C14_ExamplesByAge ==
    (vpc = "done" /\ IncompleteTodo) =>
        LET old == WholeDays(now - subject.created_at) > 14
        IN  /\ DueIn = 0 - 10 => label = "critical"
            /\ DueIn = 1 => label = "high"
            /\ DueIn = 5 => label = (IF old THEN "high" ELSE "medium")
            /\ DueIn = 30 => label = (IF old THEN "high" ELSE "low")

\* C14's case: an incomplete todo due in 5 days and created 20 days ago,
\* labelled high.
C14_Witness ==
    /\ vpc = "done"
    /\ IncompleteTodo
    /\ DueIn = 5
    /\ WholeDays(now - subject.created_at) >= 20
    /\ label = "high"

(***************************************************************************)
(* calculateRelevanceScore on its own                                      *)
(***************************************************************************)

\* Most words in a query drawn.
MaxWords == 12

\* The query of n words "a".
Repeated(n) == [i \in 1..(2 * n - 1) |-> IF i % 2 = 1 THEN "a" ELSE " "]

\* The texts scored: a todo's content or a card's title, followed by a space
\* and the notes, which are empty.
ScoreTexts ==
    { <<"J", "o", " ", "x", " ">>, <<"a", " ", "j", "o", " ">>,
      <<"x", "a", " ">>, <<"z", " ">>, <<" ">> }

\* The queries drawn.
ScoreQueries ==
    { <<"j", "o">>, <<"J", "O">>, <<" ", "j", "o">>, <<"j", "o", " ">>,
      <<"x", " ", "j", "o">>, <<"j", "o", " ", "j", "o">>, <<"z", "z">>,
      <<"a">>, <<>> }
        \cup {Repeated(n) : n \in 2..MaxWords}

ScoreInit ==
    /\ scoreText \in ScoreTexts
    /\ scoreQuery \in ScoreQueries
    /\ otherQuery \in ScoreQueries
    /\ score = Pending
    /\ otherScore = Pending
    /\ cpc = "call"

ScoreIdle ==
    /\ scoreText = <<>>
    /\ scoreQuery = <<>>
    /\ otherQuery = <<>>
    /\ score = Pending
    /\ otherScore = Pending
    /\ cpc = "idle"

\* calculateRelevanceScore of the text with each of the two queries.
CallScore ==
    /\ cpc = "call"
    /\ score' = calculateRelevanceScore(scoreText, scoreQuery)
    /\ otherScore' = calculateRelevanceScore(scoreText, otherQuery)
    /\ cpc' = "done"
    /\ UNCHANGED <<scoreText, scoreQuery, otherQuery, sevVars, tierVars>>
    /\ UNCHANGED <<matchVars, dueVars, dockVars, aggVars, callVars>>

(***************************************************************************)
(* Claims about calculateRelevanceScore                                    *)
(***************************************************************************)

\* The words of a query: its longest runs of characters that are not white
\* space, each as the pair of its first and last position.
WordsOf(q) ==
    {w \in (1..Len(q)) \X (1..Len(q)) :
        /\ w[1] <= w[2]
        /\ \A i \in w[1]..w[2] : ~IsSpace(q[i])
        /\ w[1] = 1 \/ IsSpace(q[w[1] - 1])
        /\ w[2] = Len(q) \/ IsSpace(q[w[2] + 1])}

\* The score as C16 states it.
StatedScore(text, q) ==
    LET lower == ToLowerCase(text)
        ql == ToLowerCase(q)
    IN  (IF Includes(lower, ql) THEN 100 ELSE 0)
        + (IF StartsWith(lower, ql) THEN 50 ELSE 0)
        + 10 * Cardinality({w \in WordsOf(ql) : Includes(lower, SubSeq(ql, w[1], w[2]))})

\* C16: the score of a text for a query is, without regard to case, 100 if
\* the text contains the whole query, plus 50 if the text starts with it, plus
\* 10 for each white-space-separated word of the query that occurs in the
\* text, a repeated word counted each time.
C16_ScoreFormula ==
    cpc = "done" => (score \in Nat /\ score = StatedScore(scoreText, scoreQuery))

\* The text contains the query as a phrase.
PhraseMatch(q) == Includes(ToLowerCase(scoreText), ToLowerCase(q))

\* The pieces of the query that queryLower.split(/\s+/) gives and the text
\* contains.
PiecesFound(q) ==
    LET pieces == Split(ToLowerCase(q))
    IN  {i \in 1..Len(pieces) : Includes(ToLowerCase(scoreText), pieces[i])}

\* The text contains words of the query, but not the query as a phrase.
WordsOnlyMatch(q) == ~PhraseMatch(q) /\ PiecesFound(q) # {}

\* C17, as stated: when the text contains one query as a phrase and only
\* single words of the other, the first scores at least as high as the
\* second.
C17_Original ==
    (cpc = "done" /\ PhraseMatch(scoreQuery) /\ WordsOnlyMatch(otherQuery)) =>
        score >= otherScore

\* C17: a query the text contains as a phrase scores at least 110, and a query
\* of which the text contains only single words scores 10 for each of its
\* pieces found; so the phrase match scores at least as high whenever at most
\* 11 pieces of the other query are found in the text.
C17_PhraseBeatsFewWords ==
    (cpc = "done" /\ PhraseMatch(scoreQuery) /\ WordsOnlyMatch(otherQuery)) =>
        /\ score >= 110
        /\ otherScore = 10 * Cardinality(PiecesFound(otherQuery))
        /\ Cardinality(PiecesFound(otherQuery)) <= 11 => score >= otherScore

\* C17's case: a text scored for a query that is not empty and that it
\* contains as a phrase, and for a query of two words of which it contains
\* both but not the phrase.
C17_Witness ==
    /\ cpc = "done"
    /\ PhraseMatch(scoreQuery)
    /\ scoreQuery # <<>>
    /\ WordsOnlyMatch(otherQuery)
    /\ Cardinality(PiecesFound(otherQuery)) = 2
    /\ score > otherScore

(***************************************************************************)
(* The workload entry of one person on its own                             *)
(***************************************************************************)

\* Most active todos and most cards a person is drawn with.
MaxCount == 16

\* The values of workloadMap drawn: a person's counts after the walk, with
\* one overdue detail for each overdue todo.
TierCounters ==
    {[NewWorkload(CurrentUser) EXCEPT
         !.active_todos = a, !.completed_todos = c, !.overdue_todos = o, !.cards = k,
         !.projects = IF a + c + k > 0 THEN <<"A">> ELSE <<>>,
         !.overdue_details =
             [i \in 1..o |-> [title |-> <<"z">>, due_on |-> Today - 1, project |-> "A",
                              todolist |-> 1, days_overdue |-> 1]]] :
        a \in 0..MaxCount, c \in {0, 2}, k \in {0, 1, 8, MaxCount},
        o \in {0, 1, 2, 3, 5, 6}}

TierInit ==
    /\ counters \in {w \in TierCounters : w.overdue_todos <= w.active_todos}
    /\ analysis = Pending
    /\ wpc = "call"

TierIdle ==
    /\ counters = Null
    /\ analysis = Pending
    /\ wpc = "idle"

\* The map callback applied to the value.
CallWorkloadEntry ==
    /\ wpc = "call"
    /\ analysis' = WorkloadEntry(counters)
    /\ wpc' = "done"
    /\ UNCHANGED <<counters, sevVars, scoreVars>>
    /\ UNCHANGED <<matchVars, dueVars, dockVars, aggVars, callVars>>

\* None of the functions checked on their own is under way.
PureIdle == SevIdle /\ ScoreIdle /\ TierIdle

\* C19: every entry has total_workload = active_todos + cards, whatever the
\* number of completed todos; workload_status no_assignments for 0, light for
\* 1..3, moderate for 4..8, heavy for 9..15 and overloaded above 15; and
\* risk_level high for more than 5 overdue todos, medium for 3..5, low for
\* 1..2 and none for 0.
C19_Tiers ==
    wpc = "done" =>
        LET total == counters.active_todos + counters.cards
            overdue == counters.overdue_todos
        IN  /\ analysis.total_workload = total
            /\ analysis.workload_status =
                   (CASE total = 0 -> "no_assignments"
                      [] total \in 1..3 -> "light"
                      [] total \in 4..8 -> "moderate"
                      [] total \in 9..15 -> "heavy"
                      [] total > 15 -> "overloaded")
            /\ analysis.risk_level =
                   (CASE overdue > 5 -> "high"
                      [] overdue \in 3..5 -> "medium"
                      [] overdue \in 1..2 -> "low"
                      [] overdue = 0 -> "none")
            /\ analysis.active_todos = counters.active_todos
            /\ analysis.cards = counters.cards

\* C19's case: a person with completed todos, 15 open items and 5 overdue
\* todos, on the upper edge of heavy and of medium.
C19_Witness ==
    /\ wpc = "done"
    /\ counters.completed_todos > 0
    /\ counters.active_todos + counters.cards = 15
    /\ counters.overdue_todos = 5
    /\ analysis.workload_status = "heavy"
    /\ analysis.risk_level = "medium"

(***************************************************************************)
(* bulkAssignTodos                                                         *)
(***************************************************************************)

\* The most entries of todo_ids.
MaxTodoIds == 2

\* The todos of the remote service with their assignee ids before the call.
\* No todo has the id 9.
StoredTodos == [t \in {1, 2} |-> IF t = 1 THEN <<1>> ELSE <<>>]

\* Whether the caller passed the argument.
Given(a, name) == name \in DOMAIN a

\* An object's member, absent or with one of the values.
Opt(name, values) == {<<>>} \cup {name :> v : v \in values}

\* The arguments bulk_assign_todos is called with; an absent field is
\* undefined.
BulkArgs ==
    LET lists == UNION {[1..n -> {1, 2, 9}] : n \in 0..MaxTodoIds}
    IN  {a @@ b @@ c @@ d :
            a \in Opt("todo_ids", lists),
            b \in Opt("action", {"assign", "reassign", "unassign", "remove"}),
            c \in Opt("assignee_ids", {<<>>, <<2>>, <<3, 1>>}),
            d \in Opt("notify", {FALSE})}

\* The three checks of the arguments that a validation without the third
\* makes.
ValidationError_noAssigneeCheck(a) ==
    IF ~Given(a, "todo_ids") \/ Len(a.todo_ids) = 0 THEN "No todo IDs provided"
    ELSE IF ~Given(a, "action") \/ a.action \notin {"assign", "reassign", "unassign"}
    THEN "Invalid action. Must be: assign, reassign, or unassign"
    ELSE "none"

\* The message of the error the checks of the arguments throw, "none" when
\* they pass.
ValidationError(a) ==
    IF ~Given(a, "todo_ids") \/ Len(a.todo_ids) = 0 THEN "No todo IDs provided"
    ELSE IF ~Given(a, "action") \/ a.action \notin {"assign", "reassign", "unassign"}
    THEN "Invalid action. Must be: assign, reassign, or unassign"
    ELSE IF /\ a.action \in {"assign", "reassign"}
            /\ (~Given(a, "assignee_ids") \/ Len(a.assignee_ids) = 0)
    THEN "Assignee IDs required for assign/reassign actions"
    ELSE "none"

\* [...new Set(list)]: the first occurrence of each value, in order.
SetOrder(list) ==
    Pick(list, {i \in 1..Len(list) : \A j \in 1..(i - 1) : list[j] # list[i]})

\* (todo.assignees || []).map(a => a.id)
AssigneeIdsOf(item) == [i \in 1..Len(item.assignees) |-> item.assignees[i].id]

\* The assignee_ids of 'assign' without the Set.
NewAssigneeIds_noSet(existing, requested) == existing \o requested

\* The assignee_ids of 'assign': newAssigneeIds.
NewAssigneeIds(existing, requested) == SetOrder(existing \o requested)

\* updatePayload.
UpdatePayload(a, item) ==
    [assignee_ids |->
         CASE a.action = "assign" -> NewAssigneeIds(AssigneeIdsOf(item), a.assignee_ids)
           [] a.action = "reassign" -> a.assignee_ids
           [] OTHER -> <<>>]
    @@ (IF Given(a, "notify") THEN "notify" :> a.notify ELSE <<>>)

\* GET buckets/*/todos/<id>.json and PUT buckets/<bucket>/todos/<id>.json.
Get(id) == [method |-> "GET", todo_id |-> id]

Put(bucket, id, update) == [method |-> "PUT", bucket |-> bucket, todo_id |-> id, body |-> update]

\* The todo the remote service answers a lookup with.
StoredTodo(id, heldBy) ==
    [id |-> id, content |-> <<"t">>,
     assignees |-> [i \in 1..Len(heldBy) |-> Assignee(heldBy[i])],
     bucket |-> [id |-> 5]]

\* The payload of a call whose loop came to its end.
BulkPayload(a, ok, failed) ==
    [summary |->
         [total_requested |-> Len(a.todo_ids),
          successful |-> Len(ok),
          failed |-> Len(failed),
          success_rate |-> (2 * 100 * Len(ok) + Len(a.todo_ids)) \div (2 * Len(a.todo_ids))],
     successful_operations |-> ok,
     failed_operations |-> failed,
     operation_details |->
         [action |-> a.action,
          assignee_ids |-> IF Given(a, "assignee_ids") THEN a.assignee_ids ELSE <<>>,
          notify |-> ~(Given(a, "notify") /\ a.notify = FALSE)]]

\* The payload of the outer catch.
BulkError(a, message) ==
    [error |-> "Failed to perform bulk assignment operation", details |-> message]
    @@ (IF Given(a, "action") THEN "requested_action" :> a.action ELSE <<>>)

\* An entry of errors.
FailedOperation(a, id, message) == [todo_id |-> id, error |-> message, action |-> a.action]

\* A loop that a failed todo ends.
Continue_break(index) == MaxTodoIds + 1

\* continue, and the end of the catch block: the loop goes on with the next
\* entry of todo_ids.
Continue(index) == index + 1

\* The for-loop at the entry `index` of todo_ids: it sends the lookup of
\* that entry or, past the last entry, the function returns its payload.
LoopTo(a, index, ok, failed, requests) ==
    /\ results' = ok
    /\ errors' = failed
    /\ lookedUp' = Null
    /\ IF index > Len(a.todo_ids)
       THEN /\ bpc' = "done"
            /\ bulkResult' = BulkPayload(a, ok, failed)
            /\ wire' = requests
            /\ todoIndex' = 0
       ELSE /\ bpc' = "lookup"
            /\ bulkResult' = Pending
            /\ wire' = Append(requests, Get(a.todo_ids[index]))
            /\ todoIndex' = index

\* No call of bulk_assign_todos is made.
BulkIdle ==
    /\ bulkArgs = <<>>
    /\ bpc = "idle"
    /\ todoIndex = 0
    /\ lookedUp = Null
    /\ results = <<>>
    /\ errors = <<>>
    /\ wire = <<>>
    /\ store = StoredTodos
    /\ bulkResult = Pending

\* bulk_assign_todos has been called.
BulkInit ==
    /\ bulkArgs \in BulkArgs
    /\ bpc = "called"
    /\ todoIndex = 0
    /\ lookedUp = Null
    /\ results = <<>>
    /\ errors = <<>>
    /\ wire = <<>>
    /\ store = StoredTodos
    /\ bulkResult = Pending

\* bulkAssignTodos up to its first await: the checks of the arguments and
\* the lookup of the first todo.
BulkCall ==
    /\ bpc = "called"
    /\ IF ValidationError(bulkArgs) # "none"
       THEN /\ bpc' = "done"
            /\ bulkResult' = BulkError(bulkArgs, ValidationError(bulkArgs))
            /\ UNCHANGED <<todoIndex, lookedUp, results, errors, wire>>
       ELSE LoopTo(bulkArgs, 1, <<>>, <<>>, <<>>)
    /\ UNCHANGED <<bulkArgs, store>>
    /\ UNCHANGED <<matchVars, dueVars, dockVars, aggVars, pureVars, rpcVars>>

\* The lookup of the todo settles: with the todo, the update is sent; with
\* a response that is not ok, a todo without bucket or a rejection, the todo
\* goes to errors and the loop goes on.
LookupSettles ==
    /\ bpc = "lookup"
    /\ LET id == bulkArgs.todo_ids[todoIndex]
           outcomes == IF id \in DOMAIN store
                       THEN {"ok", "noBucket", "non2xx", "rejected"}
                       ELSE {"non2xx", "rejected"}
       IN  \E outcome \in outcomes :
               IF outcome = "ok"
               THEN /\ lookedUp' = StoredTodo(id, store[id])
                    /\ wire' = Append(wire, Put(lookedUp'.bucket.id, id,
                                                UpdatePayload(bulkArgs, lookedUp')))
                    /\ bpc' = "update"
                    /\ UNCHANGED <<todoIndex, results, errors, bulkResult>>
               ELSE LoopTo(bulkArgs, Continue(todoIndex), results,
                           Append(errors,
                                  FailedOperation(bulkArgs, id,
                                      CASE outcome = "non2xx" ->
                                               "Todo not found or inaccessible"
                                        [] outcome = "noBucket" ->
                                               "Could not determine project ID for todo"
                                        [] OTHER -> "Network connection lost")),
                           wire)
    /\ UNCHANGED <<bulkArgs, store>>
    /\ UNCHANGED <<matchVars, dueVars, dockVars, aggVars, pureVars, rpcVars>>

\* The update of the todo settles.  The remote service applies an update it
\* answers with ok, and one whose answer is lost on the way back.
UpdateSettles ==
    /\ bpc = "update"
    /\ LET id == bulkArgs.todo_ids[todoIndex]
           update == wire[Len(wire)].body
       IN  \E outcome \in {"ok", "non2xx", "rejected", "lost"} :
               /\ store' = IF outcome \in {"ok", "lost"}
                           THEN [store EXCEPT ![id] = update.assignee_ids]
                           ELSE store
               /\ IF outcome = "ok"
                  THEN LoopTo(bulkArgs, todoIndex + 1,
                              Append(results,
                                     [todo_id |-> id, action |-> bulkArgs.action,
                                      success |-> TRUE,
                                      previous_assignees |-> lookedUp.assignees,
                                      new_assignees |-> StoredTodo(id, store'[id]).assignees,
                                      title |-> lookedUp.content]),
                              errors, wire)
                  ELSE LoopTo(bulkArgs, Continue(todoIndex), results,
                              Append(errors,
                                     IF outcome = "non2xx"
                                     THEN FailedOperation(bulkArgs, id, "Failed to update todo")
                                          @@ [title |-> lookedUp.content]
                                     ELSE FailedOperation(bulkArgs, id,
                                                          "Network connection lost")),
                              wire)
    /\ UNCHANGED bulkArgs
    /\ UNCHANGED <<matchVars, dueVars, dockVars, aggVars, pureVars, rpcVars>>

(***************************************************************************)
(* Claims about bulkAssignTodos                                            *)
(***************************************************************************)

BulkDone == bpc = "done"

\* The requests of a method among the requests.
RequestsOf(requests, method) ==
    Pick(requests, {i \in 1..Len(requests) : requests[i].method = method})

\* The entries of the list for the todo id.
EntriesFor(list, id) == {i \in 1..Len(list) : list[i].todo_id = id}

\* C25: bulk_assign_todos looks every entry of todo_ids up once, in the
\* order of the request, and each entry ends in successful_operations or in
\* failed_operations, never in both and never in neither: successful and
\* failed add up to total_requested, whatever failed before.
C25_EveryEntryProcessedOnce ==
    (BulkDone /\ ~IsError(bulkResult)) =>
        LET ids == bulkArgs.todo_ids
            lookups == RequestsOf(wire, "GET")
            ok == bulkResult.successful_operations
            failed == bulkResult.failed_operations
            summary == bulkResult.summary
        IN  /\ Len(lookups) = Len(ids)
            /\ \A i \in 1..Len(ids) : lookups[i].todo_id = ids[i]
            /\ \A id \in Range(ids) :
                   Cardinality(EntriesFor(ok, id)) + Cardinality(EntriesFor(failed, id))
                       = Cardinality({i \in 1..Len(ids) : ids[i] = id})
            /\ summary.total_requested = Len(ids)
            /\ summary.successful = Len(ok)
            /\ summary.failed = Len(failed)
            /\ summary.successful + summary.failed = summary.total_requested

\* C25's case: the first of two todos failed and the second was updated.
C25_Witness ==
    /\ BulkDone
    /\ ~IsError(bulkResult)
    /\ Len(bulkArgs.todo_ids) = 2
    /\ Len(bulkResult.failed_operations) = 1
    /\ bulkResult.failed_operations[1].todo_id = bulkArgs.todo_ids[1]
    /\ Len(bulkResult.successful_operations) = 1
    /\ bulkResult.successful_operations[1].todo_id = bulkArgs.todo_ids[2]

\* The arguments the tool is said to refuse.
StatedInvalid(a) ==
    \/ ~Given(a, "todo_ids")
    \/ a.todo_ids = <<>>
    \/ ~Given(a, "action")
    \/ a.action \notin {"assign", "reassign", "unassign"}
    \/ /\ a.action \in {"assign", "reassign"}
       /\ (~Given(a, "assignee_ids") \/ a.assignee_ids = <<>>)

\* C26: on invalid arguments bulk_assign_todos sends no request, changes no
\* todo and returns an error payload; a todo is changed through an update
\* only; and the step in which the lookup of a todo fails sends no update.
C26_InvalidArgumentsSendNothing ==
    /\ [][StatedInvalid(bulkArgs) =>
              /\ wire' = <<>>
              /\ store' = store
              /\ bpc' = "done" => IsError(bulkResult')]_vars
    /\ [][store' # store => bpc = "update"]_vars
    /\ [][(bpc = "lookup" /\ errors' # errors) =>
              RequestsOf(wire', "PUT") = RequestsOf(wire, "PUT")]_vars

\* C26's case: an assign without assignee ids returned an error payload with
\* nothing sent.
C26_Witness ==
    /\ BulkDone
    /\ Given(bulkArgs, "todo_ids")
    /\ bulkArgs.todo_ids # <<>>
    /\ Given(bulkArgs, "action")
    /\ bulkArgs.action = "assign"
    /\ ~Given(bulkArgs, "assignee_ids")
    /\ IsError(bulkResult)
    /\ wire = <<>>
    /\ store = StoredTodos

\* C27: the assignee_ids of an update are, for assign, the ids the todo has
\* followed by the requested ids it has not, each once, so that an assign
\* of ids the todo has already sends the ids the todo has; for reassign the
\* requested ids; and for unassign none.
C27_AssigneeIdsByAction ==
    bpc = "update" =>
        LET sentIds == wire[Len(wire)].body.assignee_ids
            existing == AssigneeIdsOf(lookedUp)
        IN  CASE bulkArgs.action = "assign" ->
                   /\ \A i, j \in 1..Len(sentIds) : sentIds[i] = sentIds[j] => i = j
                   /\ Range(sentIds) = Range(existing) \cup Range(bulkArgs.assignee_ids)
                   /\ SubSeq(sentIds, 1, Len(existing)) = existing
                   /\ Range(bulkArgs.assignee_ids) \subseteq Range(existing) =>
                          sentIds = existing
              [] bulkArgs.action = "reassign" -> sentIds = bulkArgs.assignee_ids
              [] OTHER -> sentIds = <<>>

\* C27's case: the second assign of the same ids to the same todo, which
\* has another assignee besides.
C27_Witness ==
    /\ bpc = "update"
    /\ bulkArgs.action = "assign"
    /\ todoIndex = 2
    /\ bulkArgs.todo_ids[1] = bulkArgs.todo_ids[2]
    /\ Len(results) = 1
    /\ Range(bulkArgs.assignee_ids) \subseteq Range(AssigneeIdsOf(lookedUp))
    /\ Range(AssigneeIdsOf(lookedUp)) \ Range(bulkArgs.assignee_ids) # {}
    /\ wire[Len(wire)].body.assignee_ids = AssigneeIdsOf(lookedUp)

(***************************************************************************)
(* The POST handler of the four builds of the server                       *)
(***************************************************************************)

\* The builds by their version: src/index.ts (4.1.0), src/src/index.ts
\* (4.3.0), src/unnamed/part_001 (5.0.0) and src/unnamed/part_000 (6.0.0).
Builds == {"4.1.0", "4.3.0", "5.0.0", "6.0.0"}

\* JSON numbers and strings, as records so that they compare with null.
Num(n) == [number |-> n]

Str(s) == [string |-> s]

\* The values the id of a request body may have.
JsonIds == {Null, Num(0), Num(7), Str(<<>>), Str(<<"k">>), [boolean |-> FALSE]}

\* The bodies posted: JSON objects, each member present or absent.
RpcRequests ==
    LET arguments == {t @@ c : t \in Opt("access_token", {<<>>, <<"A">>}),
                               c \in Opt("account_id", {<<"8">>})}
        params == {n @@ g : n \in Opt("name", {"get_projects"}),
                            g \in Opt("arguments", arguments)}
    IN  {i @@ m @@ p :
            i \in Opt("id", JsonIds),
            m \in Opt("method", {"initialize", "resources/list", "ping", "tools/call"}),
            p \in Opt("params", params)}

Bearer == <<"B", "e", "a", "r", "e", "r", " ">>

\* The headers of the request: no Authorization header, a bearer token, the
\* bearer scheme without a token (the value of a header arrives without
\* trailing blanks), another scheme.
RpcHeaders ==
    Opt("Authorization", {Bearer \o <<"H">>, SubSeq(Bearer, 1, Len(Bearer) - 1),
                          <<"B", "a", "s", "i", "c", " ", "b">>})

\* The environment of the worker.
RpcEnvs ==
    {t @@ c : t \in Opt("BASECAMP_ACCESS_TOKEN", {<<"E">>}),
              c \in Opt("BASECAMP_ACCOUNT_ID", {<<"9">>})}

\* !value of a JSON value.
Falsy(value) ==
    \/ value = Null
    \/ value = Num(0)
    \/ value = Str(<<>>)
    \/ value = [boolean |-> FALSE]

\* The value of a token or an account id that was not found.  null,
\* undefined and the empty string are told apart nowhere: the code tests
\* the value with ! only.
NoValue == <<>>

\* A check for notifications that takes every falsy id for none.
IsNotification_anyFalsy(request) == ~Given(request, "id") \/ Falsy(request.id)

\* !mcpRequest.id && mcpRequest.id !== 0
IsNotification(request) ==
    (~Given(request, "id") \/ Falsy(request.id))
        /\ ~(Given(request, "id") /\ request.id = Num(0))

\* mcpRequest.params?.name
NameOf(request) ==
    IF Given(request, "params") /\ Given(request.params, "name")
    THEN request.params.name ELSE "undefined"

\* mcpRequest.params.arguments || {}
ArgumentsOf(request) ==
    IF Given(request.params, "arguments") THEN request.params.arguments ELSE <<>>

\* String.prototype.replace(pattern, ''): the first occurrence taken out.
ReplaceFirst(s, pattern) ==
    LET at == {i \in 1..(Len(s) - Len(pattern) + 1) :
                  SubSeq(s, i, i + Len(pattern) - 1) = pattern}
        first == CHOOSE i \in at : \A j \in at : i <= j
    IN  IF at = {} THEN s
        ELSE SubSeq(s, 1, first - 1) \o SubSeq(s, first + Len(pattern), Len(s))

\* getAccessToken with the environment asked first.
getAccessToken_envFirst(given, headers, env) ==
    IF Given(env, "BASECAMP_ACCESS_TOKEN") THEN env.BASECAMP_ACCESS_TOKEN
    ELSE IF Given(given, "access_token") /\ given.access_token # <<>>
    THEN given.access_token
    ELSE IF Given(headers, "Authorization") /\ StartsWith(headers.Authorization, Bearer)
    THEN SubSeq(headers.Authorization, Len(Bearer) + 1, Len(headers.Authorization))
    ELSE NoValue

\* getAccessToken of build 6.0.0.
getAccessToken(given, headers, env) ==
    IF Given(given, "access_token") /\ given.access_token # <<>>
    THEN given.access_token
    ELSE IF Given(headers, "Authorization") /\ StartsWith(headers.Authorization, Bearer)
    THEN SubSeq(headers.Authorization, Len(Bearer) + 1, Len(headers.Authorization))
    ELSE IF Given(env, "BASECAMP_ACCESS_TOKEN") THEN env.BASECAMP_ACCESS_TOKEN
    ELSE NoValue

\* The access token each build calls the remote service with, NoValue when
\* it finds none.  Builds 4.1.0 and 5.0.0 read the
\* environment only; build 4.3.0 takes the header of any scheme.
TokenOf(version, given, headers, env) ==
    CASE version = "6.0.0" -> getAccessToken(given, headers, env)
      [] version = "4.3.0" ->
           IF Given(given, "access_token") /\ given.access_token # <<>>
           THEN given.access_token
           ELSE IF /\ Given(headers, "Authorization")
                   /\ ReplaceFirst(headers.Authorization, Bearer) # <<>>
           THEN ReplaceFirst(headers.Authorization, Bearer)
           ELSE IF Given(env, "BASECAMP_ACCESS_TOKEN") THEN env.BASECAMP_ACCESS_TOKEN
           ELSE NoValue
      [] OTHER ->
           IF Given(env, "BASECAMP_ACCESS_TOKEN") THEN env.BASECAMP_ACCESS_TOKEN ELSE NoValue

\* The account id each build calls the remote service with, or NoValue.
AccountOf(version, given, env) ==
    IF Given(env, "BASECAMP_ACCOUNT_ID") THEN env.BASECAMP_ACCOUNT_ID
    ELSE IF version = "6.0.0" /\ Given(given, "account_id") THEN given.account_id
    ELSE NoValue

\* The tools build 6.0.0 calls without an account id.
AccountFreeTools ==
    {"get_webhooks", "create_webhook", "update_webhook", "delete_webhook", "get_all_people"}

\* The responses of the handler.
NoContent == [status |-> 204, body |-> [empty |-> TRUE]]

RpcResult(id, value) ==
    [status |-> 200, body |-> [jsonrpc |-> "2.0", id |-> id, result |-> value]]

RpcError(status, id, code) ==
    [status |-> status, body |-> [jsonrpc |-> "2.0", id |-> id, error |-> [code |-> code]]]

\* What the runtime answers when the handler itself throws.
Uncaught == [status |-> 500, body |-> [exception |-> "ReferenceError"]]

\* The catch block of the POST branch.  Builds 4.1.0 and 5.0.0 answer with
\* id null.  Build 6.0.0 reads the body again, which the first
\* request.json() has used up, so that the read rejects, the request is {}
\* and the id is null.  Build 4.3.0 reads mcpRequest, a constant of the try
\* block that the catch block does not see, and throws.
CatchOfPost(version) ==
    IF version = "4.3.0" THEN Uncaught ELSE RpcError(500, Null, -32603)

\* The switch falls to its default case.
NoCase == [default |-> TRUE]

\* What the methods other than tools/call answer, NoCase for a method the
\* build has no case for.
MethodResult(version, method) ==
    CASE method = "initialize" -> [protocolVersion |-> "2025-03-26"]
      [] method = "resources/list" /\ version # "4.3.0" -> [resources |-> <<>>]
      [] method = "ping" /\ version = "4.3.0" -> [pong |-> TRUE]
      [] OTHER -> NoCase

\* The payloads of callBasecampTool of build 6.0.0 that report an error.
ToolError(text) == [isError |-> TRUE, text |-> text]

\* No request has been posted.
RpcIdle ==
    /\ rpcBuild = "none"
    /\ rpcRequest = <<>>
    /\ rpcHeaders = <<>>
    /\ rpcEnv = <<>>
    /\ rpcpc = "idle"
    /\ rpcSent = <<>>
    /\ rpcOutcome = "none"
    /\ rpcResponse = Pending

\* A request has been posted to a build.
RpcInit ==
    /\ rpcBuild \in Builds
    /\ rpcRequest \in RpcRequests
    /\ rpcHeaders \in RpcHeaders
    /\ rpcEnv \in RpcEnvs
    /\ rpcpc = "posted"
    /\ rpcSent = <<>>
    /\ rpcOutcome = "none"
    /\ rpcResponse = Pending

\* The handler answers.
Respond(response) ==
    /\ rpcpc' = "done"
    /\ rpcResponse' = response
    /\ rpcSent' = rpcSent

\* The handler sends the tool's request to the remote service and awaits it.
CallRemote(token) ==
    /\ rpcpc' = "calling"
    /\ rpcResponse' = rpcResponse
    /\ rpcSent' = Append(rpcSent, [authorization |-> Bearer \o token])

\* tools/call of build 4.3.0: the destructuring of params, the token and the
\* account id read in the handler, then callBasecampTool.
ToolsCall43 ==
    IF ~Given(rpcRequest, "params") \/ ~Given(rpcRequest.params, "arguments")
    THEN Respond(CatchOfPost(rpcBuild))
    ELSE LET token == TokenOf(rpcBuild, rpcRequest.params.arguments, rpcHeaders, rpcEnv)
         IN  IF token = NoValue \/ AccountOf(rpcBuild, <<>>, rpcEnv) = NoValue
                \/ NameOf(rpcRequest) = "undefined"
             THEN Respond(CatchOfPost(rpcBuild))
             ELSE CallRemote(token)

\* tools/call of the other builds: the check of the tool's name, then
\* callBasecampTool up to its fetch.
ToolsCall ==
    IF NameOf(rpcRequest) = "undefined"
    THEN Respond(RpcError(400, rpcRequest.id, -32602))
    ELSE LET given == ArgumentsOf(rpcRequest)
             token == TokenOf(rpcBuild, given, rpcHeaders, rpcEnv)
             account == AccountOf(rpcBuild, given, rpcEnv)
         IN  IF rpcBuild = "6.0.0"
             THEN IF token = NoValue
                  THEN Respond(RpcResult(rpcRequest.id,
                                         ToolError("Authentication required")))
                  ELSE IF account = NoValue /\ NameOf(rpcRequest) \notin AccountFreeTools
                  THEN Respond(RpcResult(rpcRequest.id,
                                         ToolError("Configuration required")))
                  ELSE CallRemote(token)
             ELSE IF token = NoValue \/ account = NoValue
                  THEN Respond(CatchOfPost(rpcBuild))
                  ELSE CallRemote(token)

\* The POST branch up to its answer or to the fetch of the tool.
HandlePost ==
    /\ rpcpc = "posted"
    /\ IF IsNotification(rpcRequest) THEN Respond(NoContent)
       ELSE IF Given(rpcRequest, "method") /\ rpcRequest.method = "tools/call"
       THEN IF rpcBuild = "4.3.0" THEN ToolsCall43 ELSE ToolsCall
       ELSE LET value == IF Given(rpcRequest, "method")
                         THEN MethodResult(rpcBuild, rpcRequest.method) ELSE NoCase
            IN  IF value # NoCase THEN Respond(RpcResult(rpcRequest.id, value))
                ELSE IF rpcBuild = "4.3.0" THEN Respond(CatchOfPost(rpcBuild))
                ELSE Respond(RpcError(IF rpcBuild = "6.0.0" THEN 404 ELSE 400,
                                      rpcRequest.id, -32601))
    /\ UNCHANGED <<rpcBuild, rpcRequest, rpcHeaders, rpcEnv, rpcOutcome>>
    /\ UNCHANGED <<matchVars, dueVars, dockVars, aggVars, pureVars, bulkVars>>

\* The fetch of the tool settles.  Build 6.0.0 catches what the tool throws
\* and returns it as the tool's result; the other builds throw it on to the
\* catch block of the POST branch.
ToolSettles ==
    /\ rpcpc = "calling"
    /\ \E outcome \in {"ok", "non2xx", "rejected"} :
        /\ rpcOutcome' = outcome
        /\ IF outcome = "ok"
           THEN Respond(RpcResult(rpcRequest.id, [content |-> "data"]))
           ELSE IF rpcBuild = "6.0.0"
           THEN Respond(RpcResult(rpcRequest.id, ToolError("Error calling tool")))
           ELSE Respond(CatchOfPost(rpcBuild))
    /\ UNCHANGED <<rpcBuild, rpcRequest, rpcHeaders, rpcEnv>>
    /\ UNCHANGED <<matchVars, dueVars, dockVars, aggVars, pureVars, bulkVars>>

(***************************************************************************)
(* Claims about the POST handler                                           *)
(***************************************************************************)

\* A call of a tool by a request that is no notification.
IsToolCall ==
    /\ ~IsNotification(rpcRequest)
    /\ Given(rpcRequest, "method")
    /\ rpcRequest.method = "tools/call"
    /\ NameOf(rpcRequest) # "undefined"

\* The token the stated precedence chooses: the arguments' access_token,
\* else the token of a bearer Authorization header, else the environment's
\* BASECAMP_ACCESS_TOKEN, else none.
StatedToken ==
    LET given == ArgumentsOf(rpcRequest)
    IN  IF Given(given, "access_token") /\ given.access_token # <<>>
        THEN given.access_token
        ELSE IF /\ Given(rpcHeaders, "Authorization")
                /\ \E token \in {<<>>, <<"H">>} : rpcHeaders.Authorization = Bearer \o token
        THEN CHOOSE token \in {<<>>, <<"H">>} : rpcHeaders.Authorization = Bearer \o token
        ELSE IF Given(rpcEnv, "BASECAMP_ACCESS_TOKEN") THEN rpcEnv.BASECAMP_ACCESS_TOKEN
        ELSE NoValue

\* C21: build 6.0.0 calls the remote service with the token of the stated
\* precedence and with no other, and when the precedence finds no token it
\* sends no request and answers that authentication is required.
C21_TokenPrecedence ==
    (rpcBuild = "6.0.0" /\ rpcpc # "posted" /\ IsToolCall) =>
        IF StatedToken = NoValue
        THEN /\ rpcSent = <<>>
             /\ rpcResponse = RpcResult(rpcRequest.id, ToolError("Authentication required"))
        ELSE /\ \A i \in 1..Len(rpcSent) :
                    rpcSent[i].authorization = Bearer \o StatedToken
             /\ AccountOf(rpcBuild, ArgumentsOf(rpcRequest), rpcEnv) # NoValue =>
                    Len(rpcSent) = 1

\* C21's case: the arguments, the header and the environment each hold a
\* token and the request went out with the arguments' token.
C21_Witness ==
    /\ rpcBuild = "6.0.0"
    /\ rpcpc = "calling"
    /\ IsToolCall
    /\ Given(ArgumentsOf(rpcRequest), "access_token")
    /\ ArgumentsOf(rpcRequest).access_token = <<"A">>
    /\ Given(rpcHeaders, "Authorization")
    /\ rpcHeaders.Authorization = Bearer \o <<"H">>
    /\ Given(rpcEnv, "BASECAMP_ACCESS_TOKEN")
    /\ rpcSent = <<[authorization |-> Bearer \o <<"A">>]>>

\* C22: every response to a request that carries an id has that id, and when
\* the tool's fetch fails the response is an error with code -32603 and the
\* request's id.
C22_ErrorEchoesId ==
    (rpcpc = "done" /\ Given(rpcRequest, "id") /\ ~IsNotification(rpcRequest)) =>
        /\ "id" \in DOMAIN rpcResponse.body
        /\ rpcResponse.body.id = rpcRequest.id
        /\ rpcOutcome \in {"non2xx", "rejected"} =>
               /\ "error" \in DOMAIN rpcResponse.body
               /\ rpcResponse.body.error.code = -32603

\* A body without id, or with an id that is null, the empty string or
\* false.
WithoutId(request) ==
    \/ ~Given(request, "id")
    \/ request.id \in {Null, Str(<<>>), [boolean |-> FALSE]}

\* The notification check: every build answers a body without id (absent,
\* null or otherwise falsy, the number 0 excepted) with 204 and an empty
\* body, at once and with no request sent, whatever its method; a request
\* with the id 0 is not answered with 204, its tool is called, and the
\* answers of the try block carry the id 0.
NotificationsUnanswered ==
    /\ [](rpcpc \notin {"idle", "posted"} /\ WithoutId(rpcRequest) =>
             /\ rpcpc = "done"
             /\ rpcResponse = NoContent
             /\ rpcSent = <<>>)
    /\ [](rpcpc = "done" /\ ~WithoutId(rpcRequest) /\ rpcRequest.id = Num(0) =>
             /\ rpcResponse # NoContent
             /\ ("result" \in DOMAIN rpcResponse.body
                    \/ ("error" \in DOMAIN rpcResponse.body
                            /\ rpcResponse.body.error.code \in {-32601, -32602})) =>
                    rpcResponse.body.id = Num(0))
    /\ [][(rpcpc = "posted" /\ ~WithoutId(rpcRequest) /\ rpcRequest.id = Num(0)
              /\ IsToolCall /\ rpcBuild # "4.3.0"
              /\ TokenOf(rpcBuild, ArgumentsOf(rpcRequest), rpcHeaders, rpcEnv) # NoValue
              /\ AccountOf(rpcBuild, ArgumentsOf(rpcRequest), rpcEnv) # NoValue) =>
                 Len(rpcSent') = 1]_vars

\* A tools/call with the id null, a tool's name, a token and an account id
\* at hand was answered with 204 and nothing was sent.
NotificationAnswered ==
    /\ rpcpc = "done"
    /\ Given(rpcRequest, "id")
    /\ rpcRequest.id = Null
    /\ Given(rpcRequest, "method")
    /\ rpcRequest.method = "tools/call"
    /\ NameOf(rpcRequest) # "undefined"
    /\ Given(rpcEnv, "BASECAMP_ACCESS_TOKEN")
    /\ Given(rpcEnv, "BASECAMP_ACCOUNT_ID")
    /\ rpcResponse = NoContent
    /\ rpcSent = <<>>

\* The builds whose notification check C29 cites.
NotifyingBuilds == {"4.1.0", "5.0.0", "6.0.0"}

\* C29: a body without id is answered with 204, an empty body and no request
\* sent, and a request with the id 0 is handled as an ordinary request and
\* answered with the id 0.
C29_IdZeroAnswered ==
    (rpcBuild \in NotifyingBuilds /\ rpcpc = "done") =>
        /\ WithoutId(rpcRequest) => rpcResponse = NoContent /\ rpcSent = <<>>
        /\ (Given(rpcRequest, "id") /\ rpcRequest.id = Num(0)) =>
               /\ rpcResponse # NoContent
               /\ "id" \in DOMAIN rpcResponse.body
               /\ rpcResponse.body.id = Num(0)

\* No tool is called over the wire and no request is posted.
CallIdle == BulkIdle /\ RpcIdle

(***************************************************************************)
(* Specifications                                                          *)
(***************************************************************************)

\* findBestUserMatch on every identifier and people list drawn.
InitMatch == MatchInit /\ DueIdle /\ DockIdle /\ AggIdle /\ PureIdle /\ CallIdle

SpecMatch == InitMatch /\ [][CallFindBestUserMatch]_vars

\* The due-date filter on every filter, due date and clock drawn.
InitDue == DueInit /\ MatchIdle /\ DockIdle /\ AggIdle /\ PureIdle /\ CallIdle

SpecDue == InitDue /\ [][ApplyTodoDueFilter]_vars

\* The auto-lookup tools on every dock and response drawn.
InitDock == DockInit /\ MatchIdle /\ DueIdle /\ AggIdle /\ PureIdle /\ CallIdle

SpecDock == InitDock /\ [][LookupDock \/ FetchResource]_vars

\* calculateAssignmentSeverity on every assignment and instant drawn.
InitSeverity ==
    SevInit /\ SevClock /\ ScoreIdle /\ TierIdle /\ MatchIdle /\ DockIdle /\ AggIdle /\ CallIdle

SpecSeverity == InitSeverity /\ [][CallSeverity]_vars

\* calculateRelevanceScore on every text and pair of queries drawn.
InitScore ==
    ScoreInit /\ SevIdle /\ TierIdle /\ MatchIdle /\ DueIdle /\ DockIdle /\ AggIdle /\ CallIdle

SpecScore == InitScore /\ [][CallScore]_vars

\* The workload entry of every count drawn.
InitTier ==
    TierInit /\ SevIdle /\ ScoreIdle /\ MatchIdle /\ DueIdle /\ DockIdle /\ AggIdle /\ CallIdle

SpecTier == InitTier /\ [][CallWorkloadEntry]_vars

\* bulk_assign_todos on every argument record and every outcome of its
\* requests.
InitBulk ==
    BulkInit /\ RpcIdle /\ MatchIdle /\ DueIdle /\ DockIdle /\ AggIdle /\ PureIdle

SpecBulk == InitBulk /\ [][BulkCall \/ LookupSettles \/ UpdateSettles]_vars

\* One POST to each build, on every body, header and environment drawn.
InitRpc ==
    RpcInit /\ BulkIdle /\ MatchIdle /\ DueIdle /\ DockIdle /\ AggIdle /\ PureIdle

SpecRpc == InitRpc /\ [][HandlePost \/ ToolSettles]_vars

\* The assignment tools on every argument record, dock and fetch outcome
\* drawn.
Init == AggInit /\ CallClock /\ MatchIdle /\ DockIdle /\ PureIdle /\ CallIdle

Spec ==
    Init /\ [][TimerFires \/ FetchProfile \/ FetchPeople \/ FetchProjects
               \/ FetchProjectDetail \/ FetchTodoset \/ FetchTodos
               \/ FetchCardTable \/ FetchSchedule]_vars


=============================================================================
